---- MODULE Spec2Model ----
(***************************************************************************)
(* Model of the iQunet example clients: the retry wrapper                  *)
(* (Decorators.autoConnectingClient), the scoped session                   *)
(* (__enter__/__exit__, connect/disconnect/reconnect) and the paginated    *)
(* history readers (readHistory / readHistory3).                           *)
(*                                                                         *)
(* Spec      : one session object used in a with-block; wrapped methods    *)
(*             are called inside the block, the environment decides the    *)
(*             outcome of every remote operation.                          *)
(* SpecHist  : one call of readHistory / readHistory3 against a server     *)
(*             holding a fixed list of samples.                            *)
(* SpecRun   : one run over the sibling variables of a sensor or server.  *)
(* SpecConc  : two retrievals whose steps interleave.                      *)
(* SpecFilt  : one call of HighPassFilter.perform_hpf_filtering.           *)
(* SpecFft   : one call of FourierTransform.perform_fft_windowed.          *)
(* SpecNest  : one call of a wrapped method that calls a wrapped method.   *)
(* SpecUrl   : the endpoint a session object connects to.                  *)
(* SpecSens  : get_sensor_data over the end nodes of a sensor, every       *)
(*             remote call made through the retry wrapper.                 *)
(***************************************************************************)
EXTENDS Integers, Sequences, FiniteSets, TLC

VARIABLES
    kind,        \* which client class: "sync", "asyncio" or "graphql"
    scope,       \* "out", "in", "left" (normal exit), "escaped" (exception left the with statement)
    client,      \* self._client: "handle" or "None"
    transport,   \* the underlying connection: "open" or "closed"
    pc,          \* position inside wrapper(): "idle","try","reconn","sleep","final_reconn","final_invoke","returned","raised"
    retry,       \* the loop variable of `for retry in range(MAX_RETRIES)`
    nInvoke,     \* calls of wrappedMethod in the current call of wrapper()
    nReconnect,  \* calls of obj.reconnect() in the current call
    nSleep,      \* calls of time.sleep(RETRY_DELAY) in the current call
    nTransient,  \* guarded attempts of the current call that failed with a swallowed exception
    nRefused,    \* guarded reconnects of the current call that raised ConnectionRefusedError
    trace,       \* what the current call did so far, in order
    result,      \* what the current call returned or raised
    calls,       \* wrapped calls completed inside the with-block
    discCalls,   \* explicit calls of disconnect()
    discRaised,  \* whether some call of disconnect() raised to its caller
    last,        \* the last session-level operation that completed
    leaked,      \* the with statement was left while the transport was open
    hStartTime,  \* readHistory: the caller's startTime (None or a time)
    hEndTime,    \* readHistory: the caller's endTime
    hServer,     \* the collaborator's stored samples, oldest first by server timestamp
    hCap,        \* samples per request (the 1024 of min(numValues, 1024))
    hLimit,      \* the caller's numValues
    starttime,   \* readHistory's local starttime
    endtime,     \* readHistory's local endtime
    numValues,   \* readHistory's remaining budget
    values,      \* accumulated values (sample ids)
    dates,       \* accumulated dates (source timestamps)
    requests,    \* the page requests issued so far
    hpc,         \* "browse", "loop", "finish", "done", "raised"
    reader,      \* "timestamp": readHistory / readHistory3; "cursor": download_endnode + get_endnode_data
    contId,      \* download_endnode's contId (None or the server's continuation point)
    dvList,      \* download_endnode's dvList
    pages,       \* what the server answered to each history read so far
    fInput,      \* perform_hpf_filtering: the data argument as passed in
    fRate,       \* perform_hpf_filtering: sampleRate (Hz)
    fHpf,        \* perform_hpf_filtering: hpf, in half hertz (1 is 0.5 Hz)
    fData,       \* perform_hpf_filtering: the local data
    fSettled,    \* the data right after the settling replacement (or NotYet)
    fStages,     \* the calls of run_highpass_filter made so far
    fExc,        \* the exception perform_hpf_filtering raised, or "none"
    fpc,         \* "idle", "start", "settled", "stage1", "done", "raised"
    wWin,        \* perform_fft_windowed: winSize
    wOverlap,    \* perform_fft_windowed: nOverlap
    wMode,       \* perform_fft_windowed: mode
    wLen,        \* len(signal) as passed in
    wComplex,    \* whether the signal has a complex sample
    wTwoSided,   \* the averaged two-sided spectrum the segments of this signal give
    wPadded,     \* len(signal) after the zero-padding (0 before it)
    wK,          \* k, the number of windows (0 before it is computed)
    wJ,          \* j, the start of the next segment
    wSegs,       \* the segments processed so far
    wOut,        \* the returned spectrum
    wExc,        \* the exception raised, or "none"
    wpc,         \* "idle", "start", "checked", "loop", "fold", "done", "raised"
    rLoop,       \* which loop over sibling variables: "endnodes" or "devices"
    rOutcomes,   \* what the retrieval of each sibling will do: "ok" or the exception it raises
    rIdx,        \* the sibling the loop is at
    rRead,       \* the siblings whose retrieval was attempted, in order
    rExc,        \* the exception that left the loop, or "none"
    rpc,         \* "idle", "loop", "returned", "raised"
    cStyle,      \* how the two retrievals get their client: "session" or "global"
    cHandle,     \* the connection handle each retrieval uses
    cConn,       \* the state of each connection handle: "new", "open", "closed"
    cPc,         \* where each retrieval is: "start", "reading", "done"
    cPages,      \* how many pages each retrieval's node holds
    cGot,        \* the pages each retrieval has received
    cReconn,     \* calls of reconnect() each retrieval's wrapper made
    cTouched,    \* whether a step of one retrieval changed the other's connection
    xKind,       \* nested wrapped call: the client class, "sync" or "asyncio"
    xConn,       \* nested wrapped call: the connection, "open" or "closed"
    oPc,         \* the outer wrapper (sensorList / get_sensor_list): "idle","try","reconn","final_reconn","final_invoke","returned","raised"
    oRetry,      \* the outer wrapper's loop variable
    oExc,        \* what the outer call raised, or "none"
    iPc,         \* the inner wrapper (objectsNode / get_objects_node), same positions
    iRetry,      \* the inner wrapper's loop variable
    iExc,        \* what the inner call raised, or "none"
    nGetChild,   \* invocations of get_root_node().get_child(path) in the one outer call
    nGetChildren, \* invocations of objectsNode.get_children() in the one outer call
    uKind,       \* endpoint of a session: the client class
    uCtor,       \* the serverUrl argument the session object was constructed with
    uGlobal,     \* the module-level name serverUrl: a URL, or "unbound"
    uTarget,     \* the endpoint self._client is bound to, or "none"
    uOpen,       \* whether self._client is connected
    uPc,         \* "idle", "new", "constructed", "in", "left", "raised"
    uExc,        \* the exception that left __init__ / __enter__ / reconnect, or "none"
    uReconn,     \* calls of reconnect() so far
    gStores,     \* get_sensor_data: what the server stores for each end node
    gStart,      \* get_sensor_data: starttime
    gEnd,        \* get_sensor_data: endtime
    gCap,        \* MAX_VALUES_PER_REQUEST
    gLimit,      \* MAX_VALUES_PER_ENDNODE
    gNode,       \* the end node the loop of get_sensor_data is at
    gOp,         \* the wrapped method being called: "get_child", "get_browse_name" or "read_raw_history"
    gPc,         \* "try","reconn","final_reconn","final_invoke": inside the wrapper; "loop","finish","done","raised"
    gRetry,      \* the wrapper's loop variable
    gConn,       \* the connection: "open" or "closed"
    gCall,       \* the arguments of the current call of read_raw_history
    gCont,       \* download_endnode's contId
    gDv,         \* download_endnode's dvList
    gAll,        \* allValues / allDates of get_sensor_data
    gSent,       \* the history read request sent last
    gFailed,     \* the request of the failed attempt that is being retried
    gPages,      \* for each end node, the continuation points returned with its pages
    gContFail,   \* whether an attempt of a history read that carried a continuation point failed
    gExc         \* the exception that left get_sensor_data, or "none"

sessVars == <<kind, scope, client, transport, pc, retry, nInvoke, nReconnect,
              nSleep, nTransient, nRefused, trace, result, calls, discCalls,
              discRaised, last, leaked>>
histVars == <<hStartTime, hEndTime, hServer, hCap, hLimit, starttime, endtime,
              numValues, values, dates, requests, hpc, reader, contId, dvList, pages>>
filtVars == <<fInput, fRate, fHpf, fData, fSettled, fStages, fExc, fpc>>
fftVars == <<wWin, wOverlap, wMode, wLen, wComplex, wTwoSided, wPadded, wK, wJ,
             wSegs, wOut, wExc, wpc>>
runVars == <<rLoop, rOutcomes, rIdx, rRead, rExc, rpc>>
concVars == <<cStyle, cHandle, cConn, cPc, cPages, cGot, cReconn, cTouched>>
nestVars == <<xKind, xConn, oPc, oRetry, oExc, iPc, iRetry, iExc, nGetChild, nGetChildren>>
urlVars == <<uKind, uCtor, uGlobal, uTarget, uOpen, uPc, uExc, uReconn>>
sensVars == <<gStores, gStart, gEnd, gCap, gLimit, gNode, gOp, gPc, gRetry, gConn,
              gCall, gCont, gDv, gAll, gSent, gFailed, gPages, gContFail, gExc>>
moreVars == <<nestVars, urlVars, sensVars>>
auxVars == <<filtVars, fftVars, runVars, concVars, moreVars>>
filtRest == <<sessVars, histVars, fftVars, runVars, concVars, moreVars>>
fftRest == <<sessVars, histVars, filtVars, runVars, concVars, moreVars>>
runRest == <<sessVars, histVars, filtVars, fftVars, concVars, moreVars>>
concRest == <<sessVars, histVars, filtVars, fftVars, runVars, moreVars>>
mainVars == <<sessVars, histVars, filtVars, fftVars, runVars, concVars>>
nestRest == <<mainVars, urlVars, sensVars>>
urlRest == <<mainVars, nestVars, sensVars>>
sensRest == <<mainVars, nestVars, urlVars>>
vars == <<sessVars, histVars, auxVars>>

----------------------------------------------------------------------------
(* Program constants *)
MAX_RETRIES == 3

(* Bounds of the model *)
MaxCalls == 2       \* wrapped calls per with-block
MaxDisc == 2        \* explicit disconnect() calls per session
MaxSamples == 3     \* samples the history server holds
MaxTime == 3        \* server timestamps are 1..MaxTime (microseconds)
MaxSkew == 2        \* how far the sensor's clock may run ahead of the server's
MaxCap == 2         \* the per-request cap (1024 in the source) is drawn from 1..MaxCap
MaxLimit == 3       \* the caller's numValues is drawn from 0..MaxLimit
TicksPerSecond == 2 \* time units per second: what strftime('%Y-%m-%d %H:%M:%S') cuts off
MaxLen == 15        \* the filter's input has 0..MaxLen samples
MaxRate == 14       \* sampleRate is drawn from 1..MaxRate (Hz)
MaxCutoff == 14     \* hpf is drawn from 0..MaxCutoff half hertz
MaxWin == 6         \* winSize is drawn from 1..MaxWin, nOverlap from -1..MaxWin
MaxSig == 8         \* the signal handed to the FFT has 0..MaxSig samples
MaxSiblings == 3    \* end nodes of a sensor / devices of a server in one run
MaxPages == 2       \* history pages of one concurrent retrieval
MaxReconnects == 2  \* calls of reconnect() on the session whose endpoint is followed
MaxNodeSamples == 2 \* samples an end node of the retried retrieval stores
MidTime == 2        \* the time a bound of the retried retrieval is set to, when given

None == 0 - 1       \* Python's None for an optional time

Kinds == {"sync", "asyncio", "graphql"}

----------------------------------------------------------------------------
(* Sequence helpers *)
Last(s) == s[Len(s)]

Reverse(s) == [i \in 1..Len(s) |-> s[Len(s) + 1 - i]]

Take(s, n) == SubSeq(s, 1, IF n < Len(s) THEN n ELSE Len(s))

Min(a, b) == IF a < b THEN a ELSE b

Positions(s, e) == {i \in 1..Len(s) : s[i] = e}

\* between any two occurrences of a there is an occurrence of b
Between(s, a, b) ==
    \A i, j \in Positions(s, a) :
        i < j => \E k \in Positions(s, b) : i < k /\ k < j

----------------------------------------------------------------------------
(* The session: connect / disconnect / reconnect *)

\* self._client.disconnect() of the library: raises or not; the socket is
\* closed either way. On a cleared handle (None) the attribute access raises.
LibDisconnectOutcomes(c, t) ==
    IF c = "None" THEN {[raised |-> TRUE, transport |-> t]}
    ELSE {[raised |-> r, transport |-> "closed"] : r \in BOOLEAN}

\* (variant) disconnect() without its try/except: the library's error escapes
DisconnectOutcomesUnguarded(k, c, t) ==
    IF k = "graphql"
    THEN {[raised |-> FALSE, client |-> "None", transport |-> "closed"]}
    ELSE {[raised |-> o.raised, client |-> c, transport |-> o.transport] :
            o \in LibDisconnectOutcomes(c, t)}

\* disconnect(): try: self._client.disconnect() except Exception: pass
\* (graphql: self._client = None)
DisconnectOutcomes(k, c, t) ==
    IF k = "graphql"
    THEN {[raised |-> FALSE, client |-> "None", transport |-> "closed"]}
    ELSE {[raised |-> FALSE, client |-> c, transport |-> o.transport] :
            o \in LibDisconnectOutcomes(c, t)}

\* connect(): self._client.connect(); self._client.load_type_definitions()
\* exc "none" is success.
ConnectOutcomes(k, c) ==
    IF c = "None" /\ k # "graphql"
    THEN {[exc |-> "AttributeError", client |-> c, transport |-> "closed",
           events |-> <<>>]}
    ELSE {[exc |-> "none", client |-> "handle", transport |-> "open",
           events |-> <<"connect", "load", "connected">>],
          [exc |-> "ConnectionRefusedError", client |-> c, transport |-> "closed",
           events |-> <<"connect", "refused">>],
          [exc |-> "ConnectError", client |-> c, transport |-> "closed",
           events |-> <<"connect", "failed">>]}
         \cup
         (IF k = "graphql" THEN {}
          ELSE {[exc |-> "LoadError", client |-> c, transport |-> "open",
                 events |-> <<"connect", "load", "failed">>]})

\* (variant) reconnect() that only connects again, without disconnect()
ReconnectRunConnectOnly(k, c, t) ==
    {[exc |-> co.exc, client |-> co.client, transport |-> co.transport,
      events |-> co.events] : co \in ConnectOutcomes(k, c)}

\* reconnect() run to completion: disconnect() then connect()
ReconnectRun(k, c, t) ==
    {[exc |-> co.exc, client |-> co.client, transport |-> co.transport,
      events |-> <<"disconnect">> \o co.events] :
        co \in UNION {ConnectOutcomes(k, d.client) : d \in DisconnectOutcomes(k, c, t)}}

\* (variant) obj.reconnect() never run, in every client class
ReconnectCallNotRun(k, c, t) ==
    {[exc |-> "none", client |-> c, transport |-> t, events |-> <<>>]}

\* obj.reconnect() as the wrapper calls it. In the asyncio client reconnect is
\* a coroutine function and the wrapper calls it without await: the call builds
\* a coroutine object, runs none of its body and raises nothing.
ReconnectCall(k, c, t) ==
    IF k = "asyncio"
    THEN {[exc |-> "none", client |-> c, transport |-> t, events |-> <<>>]}
    ELSE ReconnectRun(k, c, t)

----------------------------------------------------------------------------
(* The retry wrapper *)

\* outcomes of one invocation of wrappedMethod
InvokeOutcomes(c, t) ==
    IF c = "None" \/ t = "closed" THEN {"Transient"}
    ELSE {"ok", "BadNoMatch", "Transient"}

\* (variant) no `except BadNoMatch: raise` clause
ReraisedNever(k, e) == FALSE

\* except ua.uaerrors.BadNoMatch: raise   (the graphql wrapper has no such clause)
Reraised(k, e) == e = "BadNoMatch" /\ k # "graphql"

\* (variant) no `except ConnectionRefusedError` clause
BackoffNever(e) == FALSE

\* (variant) `except Exception` around reconnect: every failure is backed off
BackoffAny(e) == e # "none"

\* except ConnectionRefusedError:   (the only reconnect failure the loop handles)
Backoff(e) == e = "ConnectionRefusedError"

\* (variant) the else block wraps the failure in a generic error
FinalFailureGeneric(e, n) ==
    [type |-> "exc", exc |-> "RetryExhausted", origin |-> "wrapper", at |-> 0]

\* what the else block's `return wrappedMethod(obj, ...)` raises when the
\* operation raises e on invocation n: e itself, the call is not guarded
FinalFailure(e, n) == [type |-> "exc", exc |-> e, origin |-> "invoke", at |-> n]

\* (variant) a loop that runs one iteration too many
AfterIterationOffByOne(r) == IF r + 1 <= MAX_RETRIES THEN "try" ELSE "final_reconn"

\* where the loop goes after iteration r: the next iteration or the else block
AfterIteration(r) == IF r + 1 < MAX_RETRIES THEN "try" ELSE "final_reconn"

NoResult == [type |-> "none", exc |-> "none", origin |-> "none", at |-> 0]

Value(n) == [type |-> "value", exc |-> "none", origin |-> "invoke", at |-> n]
Raised(e, o, n) == [type |-> "exc", exc |-> e, origin |-> o, at |-> n]

\* __exit__: self.disconnect(); self._client = None
ExitOutcomes(k, c, t) ==
    {[client |-> "None", transport |-> d.transport] : d \in DisconnectOutcomes(k, c, t)}

----------------------------------------------------------------------------
(* Session actions *)

callVars == <<pc, retry, nInvoke, nReconnect, nSleep, nTransient, nRefused, trace, result>>

SessInit ==
    /\ kind \in Kinds
    /\ scope = "out"
    /\ client = "handle"
    \* GraphQLClient.__init__ already connects; the OPC UA clients only build the Client
    /\ transport = IF kind = "graphql" THEN "open" ELSE "closed"
    /\ pc = "idle"
    /\ retry = 0
    /\ nInvoke = 0
    /\ nReconnect = 0
    /\ nSleep = 0
    /\ nTransient = 0
    /\ nRefused = 0
    /\ trace = <<>>
    /\ result = NoResult
    /\ calls = 0
    /\ discCalls = 0
    /\ discRaised = FALSE
    /\ last = "init"
    /\ leaked = FALSE

\* with OpcUaClient(serverUrl) as client:  ->  __enter__ / __aenter__.
\* An exception in __enter__ leaves the with statement without __exit__.
Enter ==
    /\ scope = "out"
    /\ \E co \in ConnectOutcomes(kind, client) :
        /\ client' = co.client
        /\ transport' = co.transport
        /\ scope' = IF co.exc = "none" THEN "in" ELSE "escaped"
        /\ leaked' = (co.exc # "none" /\ co.transport = "open")
    /\ last' = "enter"
    /\ UNCHANGED <<kind, callVars, calls, discCalls, discRaised, histVars, auxVars>>

\* a wrapped method is called inside the block: wrapper() starts its loop
BeginCall ==
    /\ scope = "in"
    /\ pc = "idle"
    /\ calls < MaxCalls
    /\ pc' = "try"
    /\ retry' = 0
    /\ nInvoke' = 0
    /\ nReconnect' = 0
    /\ nSleep' = 0
    /\ nTransient' = 0
    /\ nRefused' = 0
    /\ trace' = <<>>
    /\ result' = NoResult
    /\ last' = "call"
    /\ UNCHANGED <<kind, scope, client, transport, calls, discCalls, discRaised,
                   leaked, histVars, auxVars>>

\* try: return wrappedMethod(obj, ...) / except BadNoMatch: raise / except Exception: pass
Invoke ==
    /\ pc = "try"
    /\ nInvoke' = nInvoke + 1
    /\ \E o \in InvokeOutcomes(client, transport) :
        /\ trace' = trace \o <<"invoke", o>>
        /\ IF o = "ok"
           THEN pc' = "returned" /\ result' = Value(nInvoke + 1)
                /\ nTransient' = nTransient
           ELSE IF Reraised(kind, o)
           THEN pc' = "raised" /\ result' = Raised(o, "invoke", nInvoke + 1)
                /\ nTransient' = nTransient
           ELSE pc' = "reconn" /\ result' = result /\ nTransient' = nTransient + 1
    /\ UNCHANGED <<kind, scope, client, transport, retry, nReconnect, nSleep,
                   nRefused, calls, discCalls, discRaised, last, leaked, histVars, auxVars>>

\* try: obj._logger.warning(...); obj.reconnect() / except ConnectionRefusedError: ...
Reconnect ==
    /\ pc = "reconn"
    /\ nReconnect' = nReconnect + 1
    /\ \E r \in ReconnectCall(kind, client, transport) :
        /\ client' = r.client
        /\ transport' = r.transport
        /\ trace' = trace \o <<"warn", "reconnect">> \o r.events
        /\ IF r.exc = "none"
           THEN pc' = AfterIteration(retry) /\ retry' = retry + 1
                   /\ nRefused' = nRefused /\ result' = result
           ELSE IF Backoff(r.exc)
           THEN pc' = "sleep" /\ retry' = retry
                   /\ nRefused' = nRefused + 1 /\ result' = result
           ELSE pc' = "raised" /\ retry' = retry /\ nRefused' = nRefused
                   /\ result' = Raised(r.exc, "reconnect", 0)
    /\ UNCHANGED <<kind, scope, nInvoke, nSleep, nTransient, calls, discCalls,
                   discRaised, last, leaked, histVars, auxVars>>

\* except ConnectionRefusedError: obj._logger.warning(...); time.sleep(RETRY_DELAY)
Sleep ==
    /\ pc = "sleep"
    /\ trace' = trace \o <<"warn", "sleep">>
    /\ nSleep' = nSleep + 1
    /\ pc' = AfterIteration(retry)
    /\ retry' = retry + 1
    /\ UNCHANGED <<kind, scope, client, transport, nInvoke, nReconnect, nTransient,
                   nRefused, result, calls, discCalls, discRaised, last, leaked,
                   histVars, auxVars>>

\* else: obj.reconnect()      (unguarded)
FinalReconnect ==
    /\ pc = "final_reconn"
    /\ nReconnect' = nReconnect + 1
    /\ \E r \in ReconnectCall(kind, client, transport) :
        /\ client' = r.client
        /\ transport' = r.transport
        /\ trace' = trace \o <<"reconnect">> \o r.events
        /\ IF r.exc = "none"
           THEN pc' = "final_invoke" /\ result' = result
           ELSE pc' = "raised" /\ result' = Raised(r.exc, "reconnect", 0)
    /\ UNCHANGED <<kind, scope, retry, nInvoke, nSleep, nTransient, nRefused, calls,
                   discCalls, discRaised, last, leaked, histVars, auxVars>>

\* else: ...; return wrappedMethod(obj, ...)      (unguarded)
FinalInvoke ==
    /\ pc = "final_invoke"
    /\ nInvoke' = nInvoke + 1
    /\ \E o \in InvokeOutcomes(client, transport) :
        /\ trace' = trace \o <<"invoke", o>>
        /\ IF o = "ok"
           THEN pc' = "returned" /\ result' = Value(nInvoke + 1)
           ELSE pc' = "raised" /\ result' = FinalFailure(o, nInvoke + 1)
    /\ UNCHANGED <<kind, scope, client, transport, retry, nReconnect, nSleep,
                   nTransient, nRefused, calls, discCalls, discRaised, last, leaked,
                   histVars, auxVars>>

\* the wrapped call returned to the body of the with-block
Return ==
    /\ pc = "returned"
    /\ pc' = "idle"
    /\ calls' = calls + 1
    /\ last' = "call"
    /\ UNCHANGED <<kind, scope, client, transport, retry, nInvoke, nReconnect, nSleep,
                   nTransient, nRefused, trace, result, discCalls, discRaised, leaked,
                   histVars, auxVars>>

\* the wrapped call raised: the exception leaves the with-block through __exit__
Propagate ==
    /\ pc = "raised"
    /\ pc' = "idle"
    /\ scope' = "escaped"
    /\ \E x \in ExitOutcomes(kind, client, transport) :
        /\ client' = x.client
        /\ transport' = x.transport
        /\ leaked' = (x.transport = "open")
    /\ last' = "exit"
    /\ UNCHANGED <<kind, retry, nInvoke, nReconnect, nSleep, nTransient, nRefused,
                   trace, result, calls, discCalls, discRaised, histVars, auxVars>>

\* the body of the with-block ended normally: __exit__
Exit ==
    /\ scope = "in"
    /\ pc = "idle"
    /\ scope' = "left"
    /\ \E x \in ExitOutcomes(kind, client, transport) :
        /\ client' = x.client
        /\ transport' = x.transport
        /\ leaked' = (x.transport = "open")
    /\ last' = "exit"
    /\ UNCHANGED <<kind, callVars, calls, discCalls, discRaised, histVars, auxVars>>

\* an explicit call of disconnect(): inside the block, or on the object after
\* the with statement was left
Disconnect ==
    /\ scope \in {"in", "left", "escaped"}
    /\ pc = "idle"
    /\ discCalls < MaxDisc
    /\ discCalls' = discCalls + 1
    /\ \E d \in DisconnectOutcomes(kind, client, transport) :
        /\ client' = d.client
        /\ transport' = d.transport
        /\ discRaised' = (discRaised \/ d.raised)
    /\ last' = "disconnect"
    /\ UNCHANGED <<kind, scope, callVars, calls, leaked, histVars, auxVars>>

HistIdle ==
    /\ hStartTime = None
    /\ hEndTime = None
    /\ hServer = <<>>
    /\ hCap = 1
    /\ hLimit = 0
    /\ starttime = None
    /\ endtime = None
    /\ numValues = 0
    /\ values = <<>>
    /\ dates = <<>>
    /\ requests = <<>>
    /\ hpc = "done"
    /\ reader = "timestamp"
    /\ contId = None
    /\ dvList = <<>>
    /\ pages = <<>>

\* no call of perform_hpf_filtering is in progress
NotYet == <<-1>>

FiltIdle ==
    /\ fInput = [type |-> "list", v |-> <<>>, filt |-> <<>>]
    /\ fRate = 1
    /\ fHpf = 0
    /\ fData = fInput
    /\ fSettled = NotYet
    /\ fStages = <<>>
    /\ fExc = "none"
    /\ fpc = "idle"

\* no call of perform_fft_windowed is in progress
FftIdle ==
    /\ wWin = 1
    /\ wOverlap = 0
    /\ wMode = "lin"
    /\ wLen = 0
    /\ wComplex = FALSE
    /\ wTwoSided = <<>>
    /\ wPadded = 0
    /\ wK = 0
    /\ wJ = 0
    /\ wSegs = <<>>
    /\ wOut = <<>>
    /\ wExc = "none"
    /\ wpc = "idle"

\* no loop over sibling variables is in progress
RunIdle ==
    /\ rLoop = "endnodes"
    /\ rOutcomes = <<>>
    /\ rIdx = 1
    /\ rRead = <<>>
    /\ rExc = "none"
    /\ rpc = "idle"

\* no concurrent retrievals are in progress
ConcIdle ==
    /\ cStyle = "session"
    /\ cHandle = <<0, 0>>
    /\ cConn = <<"new", "new", "new">>
    /\ cPc = <<"idle", "idle">>
    /\ cPages = <<0, 0>>
    /\ cGot = <<<<>>, <<>>>>
    /\ cReconn = <<0, 0>>
    /\ cTouched = FALSE

\* no nested wrapped call is in progress
NestIdle ==
    /\ xKind = "sync"
    /\ xConn = "closed"
    /\ oPc = "idle"
    /\ oRetry = 0
    /\ oExc = "none"
    /\ iPc = "idle"
    /\ iRetry = 0
    /\ iExc = "none"
    /\ nGetChild = 0
    /\ nGetChildren = 0

\* no session object is being followed for its endpoint
UrlIdle ==
    /\ uKind = "sync"
    /\ uCtor = "urlA"
    /\ uGlobal = "unbound"
    /\ uTarget = "none"
    /\ uOpen = FALSE
    /\ uPc = "idle"
    /\ uExc = "none"
    /\ uReconn = 0

NoRequest == [node |-> 0, start |-> None, end |-> None, n |-> 0, cont |-> None, seq |-> 0]

\* get_sensor_data is not running
SensIdle ==
    /\ gStores = <<>>
    /\ gStart = None
    /\ gEnd = None
    /\ gCap = 1
    /\ gLimit = 1
    /\ gNode = 0
    /\ gOp = "none"
    /\ gPc = "idle"
    /\ gRetry = 0
    /\ gConn = "closed"
    /\ gCall = NoRequest
    /\ gCont = None
    /\ gDv = <<>>
    /\ gAll = <<>>
    /\ gSent = NoRequest
    /\ gFailed = NoRequest
    /\ gPages = <<>>
    /\ gContFail = FALSE
    /\ gExc = "none"

MoreIdle == NestIdle /\ UrlIdle /\ SensIdle

AuxIdle == FiltIdle /\ FftIdle /\ RunIdle /\ ConcIdle /\ MoreIdle

Init == SessInit /\ HistIdle /\ AuxIdle

Next ==
    \/ Enter
    \/ BeginCall
    \/ Invoke
    \/ Reconnect
    \/ Sleep
    \/ FinalReconnect
    \/ FinalInvoke
    \/ Return
    \/ Propagate
    \/ Exit
    \/ Disconnect

Spec == Init /\ [][Next]_vars

----------------------------------------------------------------------------
(* The paginated history readers: readHistory / readHistory3 (timestamp      *)
(* arithmetic) and download_endnode + get_endnode_data (continuation point) *)

Times == 1..MaxTime
OptTimes == {None} \cup Times

\* what the server stores: samples ordered by server timestamp, each with the
\* source timestamp the sensor's own clock gave it
IsSorted(f) == \A i \in 1..(Len(f) - 1) : f[i].srv <= f[i + 1].srv

Stores ==
    LET Raw == UNION {[1..n -> [srv : Times, skew : {0, MaxSkew}]] : n \in 0..MaxSamples}
    IN  {[i \in 1..Len(f) |-> [id |-> i, srv |-> f[i].srv, src |-> f[i].srv + f[i].skew]] :
            f \in {g \in Raw : IsSorted(g)}}

\* the collaborator's answer to one history read (readRawHistory,
\* uaNode.read_raw_history): the stored samples whose server timestamp lies
\* within the given bounds (an absent bound is the epoch, "unspecified"); oldest
\* first when a start time is given, newest first when it is not; at most n,
\* where NumValuesPerNode = 0 asks for all of them.
InBounds(x, start, end) ==
    /\ (start = None \/ x.srv >= start)
    /\ (end = None \/ x.srv <= end)

Ordered(store, start, end) ==
    LET sel == SelectSeq(store, LAMBDA x : InBounds(x, start, end))
    IN  IF start = None THEN Reverse(sel) ELSE sel

AtMost(s, n) == IF n = 0 THEN s ELSE Take(s, n)

ServerPage(store, start, end, n) == AtMost(Ordered(store, start, end), n)

\* the collaborator's answers to a history read that carries a continuation
\* point (OpcUaClient.read_raw_history with cont): the next samples after the
\* ones already delivered, and the next continuation point: one when samples
\* are left, none or one when they are not.
CursorAnswers(store, start, end, n, cont) ==
    LET ord == Ordered(store, start, end)
        pos == IF cont = None THEN 1 ELSE cont
        page == AtMost(SubSeq(ord, pos, Len(ord)), n)
        next == pos + Len(page)
    IN  {[page |-> page, cont |-> c] :
            c \in IF next <= Len(ord) THEN {next} ELSE {None, next}}

\* Python truthiness of an optional datetime
Truthy(t) == t # None

\* (variant) a loop that ignores the remaining budget: while True:
LoopContinuesNoBudget ==
    ~(Truthy(starttime) /\ Truthy(endtime) /\ starttime > endtime)

\* while numValues > 0: / if starttime and endtime and starttime > endtime: break
LoopContinues ==
    /\ numValues > 0
    /\ ~(Truthy(starttime) /\ Truthy(endtime) /\ starttime > endtime)

Request(op, st, en, n) == [op |-> op, start |-> st, end |-> en, n |-> n, cont |-> None]

CursorRequest(st, en, n, c) ==
    [op |-> "history_read", start |-> st, end |-> en, n |-> n, cont |-> c]

\* one answer of the server as the reader saw it
Answer(dvArr, c) == [ids |-> [i \in 1..Len(dvArr) |-> dvArr[i].id], cont |-> c]

\* (variant) always ask for a full page
RequestSizeCapOnly(remaining, cap) == cap

\* min(numValues, 1024) / min(MAX_VALUES_PER_REQUEST, remaining)
RequestSize(remaining, cap) == Min(remaining, cap)

\* (variant) continue after the boundary sample's source timestamp
NextStartFromSource(dvArr) == Last(dvArr).src + 1

\* (variant) continue at the boundary sample itself
NextStartNoOffset(dvArr) == Last(dvArr).srv

\* starttime = dvArr[-1].ServerTimestamp + timedelta(microseconds=1)
NextStart(dvArr) == Last(dvArr).srv + 1

\* endtime = dvArr[-1].ServerTimestamp - timedelta(microseconds=1)
NextEnd(dvArr) == Last(dvArr).srv - 1

\* (variant) an empty page does not end the loop
AfterPageNoBreak(dvArr) == "loop"

\* if len(dvArr) == 0: break      (if not len(partial): break)
AfterPage(dvArr) == IF Len(dvArr) = 0 THEN "finish" ELSE "loop"

\* (variant) the loop ignores a missing continuation point
CursorStopsNoCont(c, count, limit) == count >= limit

\* (variant) the loop breaks on a missing continuation point only
CursorStopsNoCount(c, count, limit) == c = None

\* if contId is None: break / if len(dvList) >= MAX_VALUES_PER_ENDNODE: break
CursorStops(c, count, limit) == c = None \/ count >= limit

\* (variant) the result is reversed whatever the direction
ShouldReverseAlways(st) == TRUE

\* if starttime is None:   (results of read_raw_history are reversed)
ShouldReverse(st) == st = None

\* dv.SourceTimestamp.strftime('%Y-%m-%d %H:%M:%S'): the time cut to the second
Strftime(t) == t \div TicksPerSecond

HistInit ==
    /\ hStartTime \in OptTimes
    \* the end bound: absent, the earliest time or the latest
    /\ hEndTime \in {None, 1, MaxTime}
    /\ hServer \in Stores
    /\ hCap \in 1..MaxCap
    /\ reader \in {"timestamp", "cursor"}
    \* numValues is a parameter of readHistory; MAX_VALUES_PER_ENDNODE is a
    \* positive class constant of DataAcquisition
    /\ hLimit \in (IF reader = "timestamp" THEN 0 ELSE 1)..MaxLimit
    /\ starttime = hStartTime
    /\ endtime = hEndTime
    /\ numValues = hLimit
    /\ values = <<>>
    /\ dates = <<>>
    /\ requests = <<>>
    /\ hpc = "browse"
    /\ contId = None
    /\ dvList = <<>>
    /\ pages = <<>>

SessIdle ==
    /\ kind = "sync"
    /\ scope = "out"
    /\ client = "handle"
    /\ transport = "closed"
    /\ pc = "idle"
    /\ retry = 0
    /\ nInvoke = 0
    /\ nReconnect = 0
    /\ nSleep = 0
    /\ nTransient = 0
    /\ nRefused = 0
    /\ trace = <<>>
    /\ result = NoResult
    /\ calls = 0
    /\ discCalls = 0
    /\ discRaised = FALSE
    /\ last = "init"
    /\ leaked = FALSE

histParams == <<hStartTime, hEndTime, hServer, hCap, hLimit, reader>>

\* get variable handle: client.get_namespace_index(...), get_root_node().get_child(bpath)
HBrowse ==
    /\ reader = "timestamp"
    /\ hpc = "browse"
    /\ requests' = requests \o <<Request("get_namespace_index", None, None, 0),
                                 Request("get_child", None, None, 0)>>
    /\ hpc' = "loop"
    /\ UNCHANGED <<histParams, starttime, endtime, numValues, values, dates,
                   contId, dvList, pages, sessVars, auxVars>>

\* the body of one iteration of readHistory's loop, given what the server returned
HPageWith(n, dvArr) ==
    /\ requests' = Append(requests, Request("history_read", starttime, endtime, n))
    /\ pages' = Append(pages, Answer(dvArr, None))
    /\ hpc' = AfterPage(dvArr)
    /\ IF Len(dvArr) = 0
       THEN UNCHANGED <<numValues, values, dates, starttime, endtime>>
       ELSE /\ numValues' = numValues - Len(dvArr)
            /\ dates' = dates \o [i \in 1..Len(dvArr) |-> dvArr[i].src]
            /\ values' = values \o [i \in 1..Len(dvArr) |-> dvArr[i].id]
            /\ IF starttime = None
               THEN endtime' = NextEnd(dvArr) /\ starttime' = starttime
               ELSE starttime' = NextStart(dvArr) /\ endtime' = endtime
    /\ UNCHANGED <<histParams, contId, dvList, sessVars, auxVars>>

\* one iteration of the while loop that issues a history read
HPage ==
    /\ reader = "timestamp"
    /\ hpc = "loop"
    /\ LoopContinues
    /\ HPageWith(RequestSize(numValues, hCap),
                 ServerPage(hServer, starttime, endtime, RequestSize(numValues, hCap)))

\* the loop has ended: if starttime is None: reverse; return (values, dates)
HReturn ==
    /\ reader = "timestamp"
    /\ hpc = "finish" \/ (hpc = "loop" /\ ~LoopContinues)
    /\ IF ShouldReverse(starttime)
       THEN values' = Reverse(values) /\ dates' = Reverse(dates)
       ELSE UNCHANGED <<values, dates>>
    /\ hpc' = "done"
    /\ UNCHANGED <<histParams, starttime, endtime, numValues, requests,
                   contId, dvList, pages, sessVars, auxVars>>

\* download_endnode: endNodeName = client.get_browse_name(endNode).Name; dvList, contId = [], None
CBrowse ==
    /\ reader = "cursor"
    /\ hpc = "browse"
    /\ requests' = Append(requests, Request("get_browse_name", None, None, 0))
    /\ dvList' = <<>>
    /\ contId' = None
    /\ hpc' = "loop"
    /\ UNCHANGED <<histParams, starttime, endtime, numValues, values, dates,
                   pages, sessVars, auxVars>>

\* the body of one iteration of download_endnode's loop, given the server's answer
CPageWith(n, ans) ==
    /\ requests' = Append(requests, CursorRequest(starttime, endtime, n, contId))
    /\ pages' = Append(pages, Answer(ans.page, ans.cont))
    /\ contId' = ans.cont
    /\ IF Len(ans.page) = 0
       THEN hpc' = AfterPage(ans.page) /\ dvList' = dvList
       ELSE /\ dvList' = dvList \o ans.page
            /\ hpc' = IF CursorStops(ans.cont, Len(dvList) + Len(ans.page), hLimit)
                      THEN "finish" ELSE "loop"
    /\ UNCHANGED <<histParams, starttime, endtime, numValues, values, dates, sessVars, auxVars>>

\* one iteration of download_endnode's while True loop:
\* remaining = MAX_VALUES_PER_ENDNODE - len(dvList); assert(remaining >= 0); ...
CPage ==
    /\ reader = "cursor"
    /\ hpc = "loop"
    /\ hLimit - Len(dvList) >= 0
    /\ \E ans \in CursorAnswers(hServer, starttime, endtime,
                                RequestSize(hLimit - Len(dvList), hCap), contId) :
            CPageWith(RequestSize(hLimit - Len(dvList), hCap), ans)

\* get_endnode_data: dates and values of dvList; if starttime is None: reverse
CReturn ==
    /\ reader = "cursor"
    /\ hpc = "finish"
    /\ LET ds == [i \in 1..Len(dvList) |-> Strftime(dvList[i].src)]
           vs == [i \in 1..Len(dvList) |-> dvList[i].id]
       IN  IF ShouldReverse(starttime)
           THEN values' = Reverse(vs) /\ dates' = Reverse(ds)
           ELSE values' = vs /\ dates' = ds
    /\ hpc' = "done"
    /\ UNCHANGED <<histParams, starttime, endtime, numValues, requests,
                   contId, dvList, pages, sessVars, auxVars>>

InitHist == SessIdle /\ HistInit /\ AuxIdle

NextHist ==
    \/ HBrowse
    \/ HPage
    \/ HReturn
    \/ CBrowse
    \/ CPage
    \/ CReturn

SpecHist == InitHist /\ [][NextHist]_vars

----------------------------------------------------------------------------
(* The readers against a node of 25 samples, 10 per request, limit 8192      *)

\* 25 samples one time unit apart, or with the samples d and d + 1 stored
\* under the same server timestamp
ScenarioStore(d) ==
    [i \in 1..25 |-> [id |-> i,
                      srv |-> IF d > 0 /\ i > d THEN i - 1 ELSE i,
                      src |-> IF d > 0 /\ i > d THEN i - 1 ELSE i]]

Init14 ==
    /\ SessIdle
    /\ AuxIdle
    /\ hStartTime = 1
    /\ hEndTime \in {None, 25}
    /\ hServer \in {ScenarioStore(d) : d \in 0..24}
    /\ hCap = 10
    /\ hLimit = 8192
    /\ reader \in {"timestamp", "cursor"}
    /\ starttime = hStartTime
    /\ endtime = hEndTime
    /\ numValues = hLimit
    /\ values = <<>>
    /\ dates = <<>>
    /\ requests = <<>>
    /\ hpc = "browse"
    /\ contId = None
    /\ dvList = <<>>
    /\ pages = <<>>

Spec14 == Init14 /\ [][NextHist]_vars

----------------------------------------------------------------------------
(* The readers against a server that answers each history read as it likes  *)

\* what such a server may answer: any run of stored samples, wherever it
\* starts and whatever was delivered before, of any length up to one more
\* than was asked for
AnyPages(store, n) ==
    LET runs == {SubSeq(store, i, j) : i \in 1..(Len(store) + 1), j \in 0..Len(store)}
    IN  {r \in runs : n = 0 \/ Len(r) <= n + 1}

AnyConts == {None, 1}

HPageAny ==
    /\ reader = "timestamp"
    /\ hpc = "loop"
    /\ LoopContinues
    /\ \E dvArr \in AnyPages(hServer, RequestSize(numValues, hCap)) :
            HPageWith(RequestSize(numValues, hCap), dvArr)

CPageAny ==
    /\ reader = "cursor"
    /\ hpc = "loop"
    /\ hLimit - Len(dvList) >= 0
    /\ \E dvArr \in AnyPages(hServer, RequestSize(hLimit - Len(dvList), hCap)),
          c \in AnyConts :
            CPageWith(RequestSize(hLimit - Len(dvList), hCap), [page |-> dvArr, cont |-> c])

InitAdv ==
    /\ InitHist
    /\ hEndTime \in {None, MaxTime}
    /\ \A i \in 1..Len(hServer) :
            hServer[i].srv = Min(i, MaxTime) /\ hServer[i].src = hServer[i].srv

NextAdv ==
    \/ HBrowse
    \/ HPageAny
    \/ HReturn
    \/ CBrowse
    \/ CPageAny
    \/ CReturn

SpecAdv == InitAdv /\ [][NextAdv]_vars

\* the reader is a sequential program: a step that can be taken is taken
SpecAdvFair == SpecAdv /\ WF_vars(NextAdv)

----------------------------------------------------------------------------
(* One run over sibling variables: DataAcquisition.get_sensor_data (the end *)
(* nodes of a sensor) and VibrationToCSV._loop_devices (the devices)        *)

\* what the retrieval of one sibling may do: succeed, fail to decode a record
\* (dv.Value.Value.y_ordinate on a malformed payload), fail on a bad status
\* (res.StatusCode.check()), or find the node still waiting for its data
SiblingOutcomes == {"ok", "DecodeFailure", "BadStatus", "BadWaitingForInitialData"}

\* get_sensor_data has no try in its loop; _loop_devices has
\* except ua.uaerrors.BadWaitingForInitialData: continue
Skipped(loop, exc) == loop = "devices" /\ exc = "BadWaitingForInitialData"

RunInit ==
    /\ rLoop \in {"endnodes", "devices"}
    /\ rOutcomes \in UNION {[1..n -> SiblingOutcomes] : n \in 0..MaxSiblings}
    /\ rIdx = 1
    /\ rRead = <<>>
    /\ rExc = "none"
    /\ rpc = "loop"

\* one iteration of the for loop: the sibling's retrieval succeeds
RSiblingOk ==
    /\ rpc = "loop"
    /\ rIdx <= Len(rOutcomes)
    /\ rOutcomes[rIdx] = "ok"
    /\ rRead' = Append(rRead, rIdx)
    /\ rIdx' = rIdx + 1
    /\ UNCHANGED <<rLoop, rOutcomes, rExc, rpc, runRest>>

\* one iteration of the for loop: the sibling's retrieval raises
RSiblingFails ==
    /\ rpc = "loop"
    /\ rIdx <= Len(rOutcomes)
    /\ rOutcomes[rIdx] # "ok"
    /\ rRead' = Append(rRead, rIdx)
    /\ IF Skipped(rLoop, rOutcomes[rIdx])
       THEN rIdx' = rIdx + 1 /\ UNCHANGED <<rExc, rpc>>
       ELSE rExc' = rOutcomes[rIdx] /\ rpc' = "raised" /\ rIdx' = rIdx
    /\ UNCHANGED <<rLoop, rOutcomes, runRest>>

\* the loop is exhausted: return (allValues, allDates)
RReturn ==
    /\ rpc = "loop"
    /\ rIdx > Len(rOutcomes)
    /\ rpc' = "returned"
    /\ UNCHANGED <<rLoop, rOutcomes, rIdx, rRead, rExc, runRest>>

InitRun == SessIdle /\ HistIdle /\ FiltIdle /\ FftIdle /\ ConcIdle /\ MoreIdle /\ RunInit

NextRun ==
    \/ RSiblingOk
    \/ RSiblingFails
    \/ RReturn

SpecRun == InitRun /\ [][NextRun]_vars

----------------------------------------------------------------------------
(* Two retrievals at once: DataAcquisition.get_sensor_data (asyncio), each  *)
(* in its own OpcUaClient, and readHistory, which reads the module's client *)

Retrievals == {1, 2}

Other(r) == 3 - r

\* the client object a retrieval works with: the OpcUaClient its own
\* "async with OpcUaClient(serverUrl) as client" creates (handles 1 and 2), or
\* the module-level name client that readHistory refers to (handle 3)
HandleOf(style, r) == IF style = "session" THEN r ELSE 3

ConcInit ==
    /\ cStyle \in {"session", "global"}
    /\ cHandle = [r \in 1..2 |-> HandleOf(cStyle, r)]
    \* the script connects the module's client before it calls readHistory
    /\ cConn = [h \in 1..3 |-> IF cStyle = "global" /\ h = 3 THEN "open" ELSE "new"]
    /\ cPc = <<"start", "start">>
    /\ cPages \in [1..2 -> 1..MaxPages]
    /\ cGot = <<<<>>, <<>>>>
    /\ cReconn = <<0, 0>>
    /\ cTouched = FALSE

Touches(r, conn2) == conn2[cHandle[Other(r)]] # cConn[cHandle[Other(r)]] \/ cTouched

\* __aenter__: await self.connect()    (readHistory: the node lookup, no connect)
CEnter(r) ==
    /\ cPc[r] = "start"
    /\ LET conn2 == IF cStyle = "session" THEN [cConn EXCEPT ![cHandle[r]] = "open"] ELSE cConn
       IN  /\ cConn' = conn2
           /\ cTouched' = Touches(r, conn2)
    /\ cPc' = [cPc EXCEPT ![r] = "reading"]
    /\ UNCHANGED <<cStyle, cHandle, cPages, cGot, cReconn, concRest>>

\* one history read over the retrieval's client
CRead(r) ==
    /\ cPc[r] = "reading"
    /\ Len(cGot[r]) < cPages[r]
    /\ cConn[cHandle[r]] = "open"
    /\ cGot' = [cGot EXCEPT ![r] = Append(@, <<r, Len(@) + 1>>)]
    /\ UNCHANGED <<cStyle, cHandle, cConn, cPc, cPages, cReconn, cTouched, concRest>>

\* the wrapper's obj.reconnect() after a failed call: the coroutine is created
\* and never awaited, the connection stays as it is
CReconnect(r) ==
    /\ cStyle = "session"
    /\ cPc[r] = "reading"
    /\ cReconn[r] < 1
    /\ cReconn' = [cReconn EXCEPT ![r] = @ + 1]
    /\ UNCHANGED <<cStyle, cHandle, cConn, cPc, cPages, cGot, cTouched, concRest>>

\* __aexit__: await self.disconnect()   (readHistory: return)
CLeave(r) ==
    /\ cPc[r] = "reading"
    /\ Len(cGot[r]) = cPages[r]
    /\ LET conn2 == IF cStyle = "session" THEN [cConn EXCEPT ![cHandle[r]] = "closed"] ELSE cConn
       IN  /\ cConn' = conn2
           /\ cTouched' = Touches(r, conn2)
    /\ cPc' = [cPc EXCEPT ![r] = "done"]
    /\ UNCHANGED <<cStyle, cHandle, cPages, cGot, cReconn, concRest>>

InitConc == SessIdle /\ HistIdle /\ FiltIdle /\ FftIdle /\ RunIdle /\ MoreIdle /\ ConcInit

NextConc ==
    \E r \in Retrievals :
        \/ CEnter(r)
        \/ CRead(r)
        \/ CReconnect(r)
        \/ CLeave(r)

SpecConc == InitConc /\ [][NextConc]_vars

----------------------------------------------------------------------------
(* Signal conditioning: HighPassFilter.perform_hpf_filtering                *)

\* A sequence object: a Python list or a numpy array (type), its elements (v)
\* and the filters that were run over it (filt): the record stands for the
\* result of these filters applied to v. The input holds its own 0-based
\* indices, so every sample is recognisable.
Signal(type, n) == [type |-> type, v |-> [i \in 1..n |-> i - 1], filt |-> <<>>]

\* data[13:7:-1]: the elements at indices 13 down to 8 that exist
MirrorSlice(v) ==
    LET top == Min(13, Len(v) - 1)
    IN  [i \in 1..(IF top >= 8 THEN top - 7 ELSE 0) |-> v[(top - i + 1) + 1]]

\* data[0:6] = data[13:7:-1]: a list replaces the slice by the new elements,
\* whatever their number; a numpy array takes them when they are as many as the
\* slice, repeats a single one, and raises ValueError otherwise
SettleOutcome(d) ==
    LET rhs == MirrorSlice(d.v)
        n == Len(d.v)
        slice == Min(6, n)
    IN  IF d.type = "list"
        THEN [exc |-> "none", data |-> [d EXCEPT !.v = rhs \o SubSeq(d.v, slice + 1, n)]]
        ELSE IF Len(rhs) = slice
             THEN [exc |-> "none", data |-> [d EXCEPT !.v = rhs \o SubSeq(d.v, slice + 1, n)]]
             ELSE IF Len(rhs) = 1
                  THEN [exc |-> "none",
                        data |-> [d EXCEPT !.v = [i \in 1..n |-> IF i <= slice THEN rhs[1] ELSE d.v[i]]]]
                  ELSE [exc |-> "ValueError", data |-> d]

\* if lowcut >= sampleRate/2.0:   (lowcut in half hertz, sampleRate in hertz)
AboveNyquist(lowcut, sampleRate) == lowcut >= sampleRate

\* run_highpass_filter(data, lowcut, sampleRate, order), lowcut in half hertz:
\*   data*0.0 is a TypeError for a list and an array of zeros for an array;
\*   scipy.signal.butter raises ValueError unless 0 < lowcut/nyq < 1;
\*   scipy.signal.filtfilt raises ValueError unless len(data) > 3*(order + 1)
\*   and returns an array as long as data
StageOutcome(d, lowcut, sampleRate, order) ==
    IF AboveNyquist(lowcut, sampleRate)
    THEN IF d.type = "list"
         THEN [exc |-> "TypeError", data |-> d]
         ELSE [exc |-> "none",
               data |-> [type |-> "ndarray", v |-> [i \in 1..Len(d.v) |-> 0], filt |-> <<>>]]
    ELSE IF lowcut <= 0 \/ Len(d.v) <= 3 * (order + 1)
         THEN [exc |-> "ValueError", data |-> d]
         ELSE [exc |-> "none",
               data |-> [type |-> "ndarray", v |-> d.v,
                         filt |-> Append(d.filt, [order |-> order, lowcut |-> lowcut])]]

StageCall(d, lowcut, order, out) ==
    [order |-> order, lowcut |-> lowcut, type |-> d.type, len |-> Len(d.v),
     nyquist |-> lowcut >= fRate, exc |-> out.exc, out |-> out.data]

\* lowcut=int(hpf): the cutoff cut to whole hertz
SecondCutoff(hpf) == (hpf \div 2) * 2

\* (variant) no cutoff bypasses the filter
BypassedNever(hpf) == FALSE

\* if hpf == 0: return data
Bypassed(hpf) == hpf = 0

FiltInit ==
    /\ fInput \in {Signal(t, n) : t \in {"list", "ndarray"}, n \in 0..MaxLen}
    /\ fRate \in 1..MaxRate
    /\ fHpf \in 0..MaxCutoff
    /\ fData = fInput
    /\ fSettled = NotYet
    /\ fStages = <<>>
    /\ fExc = "none"
    /\ fpc = "start"

\* if hpf == 0: return data
FBypass ==
    /\ fpc = "start"
    /\ Bypassed(fHpf)
    /\ fpc' = "done"
    /\ UNCHANGED <<fInput, fRate, fHpf, fData, fSettled, fStages, fExc, filtRest>>

\* data[0:6] = data[13:7:-1] # skip compressor settling
FSettle ==
    /\ fpc = "start"
    /\ ~Bypassed(fHpf)
    /\ LET o == SettleOutcome(fData)
       IN  /\ fData' = o.data
           /\ fExc' = o.exc
           /\ fSettled' = IF o.exc = "none" THEN o.data.v ELSE fSettled
           /\ fpc' = IF o.exc = "none" THEN "settled" ELSE "raised"
    /\ UNCHANGED <<fInput, fRate, fHpf, fStages, filtRest>>

\* data = run_highpass_filter(data=data, lowcut=3, sampleRate=sampleRate, order=1)
FStage1 ==
    /\ fpc = "settled"
    /\ LET o == StageOutcome(fData, 6, fRate, 1)
       IN  /\ fStages' = Append(fStages, StageCall(fData, 6, 1, o))
           /\ fData' = o.data
           /\ fExc' = o.exc
           /\ fpc' = IF o.exc = "none" THEN "stage1" ELSE "raised"
    /\ UNCHANGED <<fInput, fRate, fHpf, fSettled, filtRest>>

\* data = run_highpass_filter(data=data, lowcut=int(hpf), sampleRate=sampleRate, order=2); return data
FStage2 ==
    /\ fpc = "stage1"
    /\ LET o == StageOutcome(fData, SecondCutoff(fHpf), fRate, 2)
       IN  /\ fStages' = Append(fStages, StageCall(fData, SecondCutoff(fHpf), 2, o))
           /\ fData' = o.data
           /\ fExc' = o.exc
           /\ fpc' = IF o.exc = "none" THEN "done" ELSE "raised"
    /\ UNCHANGED <<fInput, fRate, fHpf, fSettled, filtRest>>

InitFilt == SessIdle /\ HistIdle /\ FftIdle /\ RunIdle /\ ConcIdle /\ MoreIdle /\ FiltInit

NextFilt ==
    \/ FBypass
    \/ FSettle
    \/ FStage1
    \/ FStage2

SpecFilt == InitFilt /\ [][NextFilt]_vars

----------------------------------------------------------------------------
(* Spectral estimation: FourierTransform.perform_fft_windowed               *)

AllowedModes == {"magnitudeRMS", "magnitudePeak", "lin", "log"}

\* the modes a caller may pass: the allowed ones and two that are not
Modes == AllowedModes \cup {"psd", "linear"}

\* (variant) an overlap of a whole window is accepted
OverlapOkInclusive(nOverlap, winSize) == nOverlap <= winSize

\* assert(nOverlap < winSize)
OverlapOk(nOverlap, winSize) == nOverlap < winSize

\* assert(mode in ('magnitudeRMS', 'magnitudePeak', 'lin', 'log'))
ModeOk(mode) == mode \in AllowedModes

\* (variant) no zero-padding
PaddedLenAsIs(n, w) == n

\* padding = len(w) - len(signal); if padding > 0: signal = np.pad(signal, (0,padding), 'constant')
PaddedLen(n, w) == IF w - n > 0 THEN n + (w - n) ELSE n

\* int(np.fix(a/b)): the quotient rounded towards zero
Fix(a, b) ==
    LET q == (IF a < 0 THEN 0 - a ELSE a) \div (IF b < 0 THEN 0 - b ELSE b)
    IN  IF (a < 0) = (b < 0) THEN q ELSE 0 - q

\* k = int(np.fix((len(signal)-nOverlap)/(len(w)-nOverlap)))
NumWindows(len, w, nOverlap) == Fix(len - nOverlap, w - nOverlap)

\* int(math.ceil(len(w)/2.0))
CeilHalf(w) == (w + 1) \div 2

\* the averaged two-sided spectra of the model: bin i (0-based) of a real
\* signal has the power of bin w - i; a complex signal's bins are unrelated
Spectrum(w, complex, seed) ==
    [i \in 1..w |-> IF complex THEN seed + (i - 1)
                    ELSE seed + Min(i - 1, w - (i - 1))]

\* if len(np.where(np.iscomplex(signal))[0]) == 0:
\*     stop = ceil(len(w)/2); spec[1:stop-1] = 2*spec[1:stop-1]
\* else: stop = len(w)
\* spec = spec[0:stop]
OneSided(spec, complex) ==
    IF complex THEN spec
    ELSE LET stop == CeilHalf(Len(spec))
         IN  [i \in 1..stop |-> IF 1 <= i - 1 /\ i - 1 < stop - 1
                                THEN 2 * spec[i] ELSE spec[i]]

FftInit ==
    /\ wWin \in 1..MaxWin
    /\ wOverlap \in (0 - 1)..MaxWin
    /\ wMode \in Modes
    /\ wLen \in 0..MaxSig
    /\ wComplex \in BOOLEAN
    /\ wTwoSided \in {Spectrum(wWin, wComplex, seed) : seed \in 1..2}
    /\ wPadded = 0
    /\ wK = 0
    /\ wJ = 0
    /\ wSegs = <<>>
    /\ wOut = <<>>
    /\ wExc = "none"
    /\ wpc = "start"

fftParams == <<wWin, wOverlap, wMode, wLen, wComplex, wTwoSided>>

\* assert(nOverlap < winSize); assert(mode in (...))
WCheck ==
    /\ wpc = "start"
    /\ IF OverlapOk(wOverlap, wWin) /\ ModeOk(wMode)
       THEN wpc' = "checked" /\ wExc' = wExc
       ELSE wpc' = "raised" /\ wExc' = "AssertionError"
    /\ UNCHANGED <<fftParams, wPadded, wK, wJ, wSegs, wOut, fftRest>>

\* window, zero-padding, number of windows, j = 0
WPad ==
    /\ wpc = "checked"
    /\ wPadded' = PaddedLen(wLen, wWin)
    /\ wK' = NumWindows(PaddedLen(wLen, wWin), wWin, wOverlap)
    /\ wJ' = 0
    /\ wpc' = "loop"
    /\ UNCHANGED <<fftParams, wSegs, wOut, wExc, fftRest>>

\* one iteration of for i in range(0, k): segment = signal[j:j+len(w)]; ...; j = j + len(w) - nOverlap
WSegment ==
    /\ wpc = "loop"
    /\ Len(wSegs) < wK
    /\ wSegs' = Append(wSegs, [start |-> wJ, len |-> Min(wJ + wWin, wPadded) - Min(wJ, wPadded)])
    /\ wJ' = wJ + wWin - wOverlap
    /\ UNCHANGED <<fftParams, wPadded, wK, wOut, wExc, wpc, fftRest>>

\* spec = spec/k; one-sided selection; spec = spec[0:stop]; return by mode
WFold ==
    /\ wpc = "loop"
    /\ Len(wSegs) >= wK
    /\ wOut' = OneSided(wTwoSided, wComplex)
    /\ wpc' = "done"
    /\ UNCHANGED <<fftParams, wPadded, wK, wJ, wSegs, wExc, fftRest>>

InitFft == SessIdle /\ HistIdle /\ FiltIdle /\ RunIdle /\ ConcIdle /\ MoreIdle /\ FftInit

NextFft ==
    \/ WCheck
    \/ WPad
    \/ WSegment
    \/ WFold

SpecFft == InitFft /\ [][NextFft]_vars

----------------------------------------------------------------------------
(* A retry-wrapped method that calls a retry-wrapped method:                *)
(* sensorList -> objectsNode, get_sensor_list -> get_objects_node           *)

\* where a wrapper goes when its wrappedMethod raised e at position p: the
\* loop re-raises BadNoMatch and swallows everything else, the else block
\* guards nothing
AfterFailure(p, k, e) ==
    IF p = "final_invoke" \/ Reraised(k, e) THEN "raised" ELSE "reconn"

\* where a wrapper goes after obj.reconnect() with outcome e in iteration r
AfterReconnect(p, e, r) ==
    IF p = "final_reconn" THEN (IF e = "none" THEN "final_invoke" ELSE "raised")
    ELSE IF e = "none" \/ Backoff(e) THEN AfterIteration(r) ELSE "raised"

NestInit ==
    /\ xKind \in {"sync", "asyncio"}
    /\ xConn = "open"
    /\ oPc = "try"
    /\ oRetry = 0
    /\ oExc = "none"
    /\ iPc = "idle"
    /\ iRetry = 0
    /\ iExc = "none"
    /\ nGetChild = 0
    /\ nGetChildren = 0

\* the outer wrappedMethod starts: self.objectsNode / await self.get_objects_node()
\* enters the inner wrapper
OInvoke ==
    /\ oPc \in {"try", "final_invoke"}
    /\ iPc = "idle"
    /\ iPc' = "try"
    /\ iRetry' = 0
    /\ iExc' = "none"
    /\ UNCHANGED <<xKind, xConn, oPc, oRetry, oExc, nGetChild, nGetChildren, nestRest>>

\* inner wrapper: return wrappedMethod(obj)  ->  get_root_node().get_child(path)
IInvoke ==
    /\ iPc \in {"try", "final_invoke"}
    /\ nGetChild' = nGetChild + 1
    /\ \E o \in InvokeOutcomes("handle", xConn) :
        IF o = "ok"
        THEN iPc' = "returned" /\ iExc' = iExc
        ELSE iPc' = AfterFailure(iPc, xKind, o)
                /\ iExc' = IF AfterFailure(iPc, xKind, o) = "raised" THEN o ELSE iExc
    /\ UNCHANGED <<xKind, xConn, oPc, oRetry, oExc, iRetry, nGetChildren, nestRest>>

\* inner wrapper: obj.reconnect() in the loop (with its except
\* ConnectionRefusedError and sleep) or in the else block
IReconnect ==
    /\ iPc \in {"reconn", "final_reconn"}
    /\ \E r \in ReconnectCall(xKind, "handle", xConn) :
        /\ xConn' = r.transport
        /\ iPc' = AfterReconnect(iPc, r.exc, iRetry)
        /\ iExc' = IF AfterReconnect(iPc, r.exc, iRetry) = "raised" THEN r.exc ELSE iExc
    /\ iRetry' = IF iPc = "reconn" THEN iRetry + 1 ELSE iRetry
    /\ UNCHANGED <<xKind, oPc, oRetry, oExc, nGetChild, nGetChildren, nestRest>>

\* the inner call returned the objects node: the outer wrappedMethod goes on
\* with objectsNode.get_children() and returns or raises
OChildren ==
    /\ iPc = "returned"
    /\ iPc' = "idle"
    /\ nGetChildren' = nGetChildren + 1
    /\ \E o \in InvokeOutcomes("handle", xConn) :
        IF o = "ok"
        THEN oPc' = "returned" /\ oExc' = oExc
        ELSE oPc' = AfterFailure(oPc, xKind, o)
                /\ oExc' = IF AfterFailure(oPc, xKind, o) = "raised" THEN o ELSE oExc
    /\ UNCHANGED <<xKind, xConn, oRetry, iRetry, iExc, nGetChild, nestRest>>

\* the inner call raised: the exception leaves the outer wrappedMethod
OInnerRaised ==
    /\ iPc = "raised"
    /\ iPc' = "idle"
    /\ oPc' = AfterFailure(oPc, xKind, iExc)
    /\ oExc' = IF AfterFailure(oPc, xKind, iExc) = "raised" THEN iExc ELSE oExc
    /\ UNCHANGED <<xKind, xConn, oRetry, iRetry, iExc, nGetChild, nGetChildren, nestRest>>

\* outer wrapper: obj.reconnect() in the loop or in the else block
OReconnect ==
    /\ oPc \in {"reconn", "final_reconn"}
    /\ \E r \in ReconnectCall(xKind, "handle", xConn) :
        /\ xConn' = r.transport
        /\ oPc' = AfterReconnect(oPc, r.exc, oRetry)
        /\ oExc' = IF AfterReconnect(oPc, r.exc, oRetry) = "raised" THEN r.exc ELSE oExc
    /\ oRetry' = IF oPc = "reconn" THEN oRetry + 1 ELSE oRetry
    /\ UNCHANGED <<xKind, iPc, iRetry, iExc, nGetChild, nGetChildren, nestRest>>

InitNest ==
    /\ SessIdle /\ HistIdle /\ FiltIdle /\ FftIdle /\ RunIdle /\ ConcIdle
    /\ UrlIdle /\ SensIdle
    /\ NestInit

NextNest ==
    \/ OInvoke
    \/ IInvoke
    \/ IReconnect
    \/ OChildren
    \/ OInnerRaised
    \/ OReconnect

SpecNest == InitNest /\ [][NextNest]_vars

----------------------------------------------------------------------------
(* The endpoint of a session: __init__, __enter__, reconnect, __exit__      *)

Urls == {"urlA", "urlB"}

\* the URL __enter__ and reconnect() connect to. GraphQLClient: the name
\* serverUrl in `self.connect(serverUrl.geturl())` is not a parameter of these
\* methods, so it is the module-level name. OpcUaClient: self._client.connect()
\* uses the URL the Client was built with.
ConnectUrl(k, own, global) == IF k = "graphql" THEN global ELSE own

UrlInit ==
    /\ uKind \in Kinds
    /\ uCtor \in Urls
    /\ uGlobal \in Urls \cup {"unbound"}
    /\ uTarget = "none"
    /\ uOpen = FALSE
    /\ uPc = "new"
    /\ uExc = "none"
    /\ uReconn = 0

\* __init__(self, serverUrl): GraphQLClient connects to the argument, the OPC UA
\* clients build Client(serverUrl) without connecting
UConstruct ==
    /\ uPc = "new"
    /\ IF uKind = "graphql"
       THEN \E ok \in BOOLEAN :
                /\ uTarget' = IF ok THEN uCtor ELSE "none"
                /\ uOpen' = ok
                /\ uPc' = IF ok THEN "constructed" ELSE "raised"
                /\ uExc' = IF ok THEN "none" ELSE "ConnectError"
       ELSE /\ uTarget' = uCtor
            /\ uOpen' = FALSE
            /\ uPc' = "constructed"
            /\ uExc' = "none"
    /\ UNCHANGED <<uKind, uCtor, uGlobal, uReconn, urlRest>>

\* __enter__: self.connect(serverUrl.geturl()) / self.connect()
UEnter ==
    /\ uPc = "constructed"
    /\ LET u == ConnectUrl(uKind, uTarget, uGlobal)
       IN  IF u = "unbound"
           THEN /\ uExc' = "NameError"
                /\ uPc' = "raised"
                /\ UNCHANGED <<uTarget, uOpen>>
           ELSE \E ok \in BOOLEAN :
                    /\ uTarget' = IF ok THEN u ELSE uTarget
                    /\ uOpen' = IF ok THEN TRUE ELSE uOpen
                    /\ uPc' = IF ok THEN "in" ELSE "raised"
                    /\ uExc' = IF ok THEN "none" ELSE "ConnectError"
    /\ UNCHANGED <<uKind, uCtor, uGlobal, uReconn, urlRest>>

\* reconnect(): self.disconnect(); self.connect(serverUrl.geturl()) / self.connect()
UReconnect ==
    /\ uPc = "in"
    /\ uReconn < MaxReconnects
    /\ uReconn' = uReconn + 1
    /\ LET u == ConnectUrl(uKind, uTarget, uGlobal)
           down == IF uKind = "graphql" THEN "none" ELSE uTarget
       IN  IF u = "unbound"
           THEN /\ uExc' = "NameError"
                /\ uPc' = "raised"
                /\ uTarget' = down
                /\ uOpen' = FALSE
           ELSE \E ok \in BOOLEAN :
                    /\ uTarget' = IF ok THEN u ELSE down
                    /\ uOpen' = ok
                    /\ uPc' = "in"
                    /\ uExc' = IF ok THEN "none" ELSE "ConnectionRefusedError"
    /\ UNCHANGED <<uKind, uCtor, uGlobal, urlRest>>

\* __exit__: self.disconnect(); self._client = None
UExit ==
    /\ uPc = "in"
    /\ uPc' = "left"
    /\ uTarget' = "none"
    /\ uOpen' = FALSE
    /\ UNCHANGED <<uKind, uCtor, uGlobal, uExc, uReconn, urlRest>>

InitUrl ==
    /\ SessIdle /\ HistIdle /\ FiltIdle /\ FftIdle /\ RunIdle /\ ConcIdle
    /\ NestIdle /\ SensIdle
    /\ UrlInit

NextUrl ==
    \/ UConstruct
    \/ UEnter
    \/ UReconnect
    \/ UExit

SpecUrl == InitUrl /\ [][NextUrl]_vars

----------------------------------------------------------------------------
(* get_sensor_data: download_endnode for each end node, with every call of  *)
(* get_browse_name and read_raw_history made through autoConnectingClient   *)

\* the end nodes get_sensor_data goes through (endnodes_path_generator yields
\* twelve; two are enough to go from one to the next)
EndNodes == 1..2

\* an end node that stores n samples, one per time unit
NodeStore(n) == [i \in 1..n |-> [id |-> i, srv |-> i, src |-> i]]

\* (variant) a retried call that starts over without the continuation point
RetryArgsNoCont(a) == [a EXCEPT !.cont = None]

\* wrappedMethod(obj, *args, **kwargs): every attempt gets the arguments of
\* the call
RetryArgs(a) == a

\* (variant) a retrieval that keeps the continuation point it finds
ContAtStartKept(c) == c

\* dvList, contId = [], None
ContAtStart(c) == None

SensInit ==
    /\ gStores \in [EndNodes -> {NodeStore(n) : n \in 0..MaxNodeSamples}]
    /\ gStart \in {None, MidTime}
    /\ gEnd \in {None, MidTime}
    /\ gCap \in 1..MaxCap
    /\ gLimit \in 1..MaxLimit
    /\ gNode = 1
    /\ gOp = "get_child"
    /\ gPc = "try"
    /\ gRetry = 0
    /\ gConn = "open"
    /\ gCall = NoRequest
    /\ gCont = None
    /\ gDv = <<>>
    /\ gAll = <<>>
    /\ gSent = NoRequest
    /\ gFailed = NoRequest
    /\ gPages = [v \in EndNodes |-> <<>>]
    /\ gContFail = FALSE
    /\ gExc = "none"

sensParams == <<gStores, gStart, gEnd, gCap, gLimit>>

\* what download_endnode does with the answer to read_raw_history
GAnswer(ans) ==
    /\ gCont' = ans.cont
    /\ gPages' = [gPages EXCEPT ![gNode] = Append(@, ans.cont)]
    /\ IF Len(ans.page) = 0
       THEN gPc' = "finish" /\ gDv' = gDv
       ELSE /\ gDv' = gDv \o ans.page
            /\ gPc' = IF CursorStops(ans.cont, Len(gDv) + Len(ans.page), gLimit)
                      THEN "finish" ELSE "loop"

\* one attempt of the wrapper: return wrappedMethod(obj, *args, **kwargs)
GInvoke ==
    /\ gPc \in {"try", "final_invoke"}
    /\ LET a == IF gFailed = NoRequest THEN gCall ELSE RetryArgs(gCall)
       IN  /\ gSent' = IF gOp = "read_raw_history" THEN a ELSE gSent
           /\ \E o \in InvokeOutcomes("handle", gConn) :
                IF o = "ok"
                THEN /\ gFailed' = NoRequest
                     /\ gExc' = gExc
                     /\ gContFail' = gContFail
                     /\ IF gOp = "get_child"
                        THEN /\ gOp' = "get_browse_name"
                             /\ gPc' = "try"
                             /\ gRetry' = 0
                             /\ UNCHANGED <<gDv, gCont, gPages>>
                        ELSE IF gOp = "get_browse_name"
                        THEN /\ gDv' = <<>>
                             /\ gCont' = ContAtStart(gCont)
                             /\ gPc' = "loop"
                             /\ UNCHANGED <<gOp, gRetry, gPages>>
                        ELSE /\ \E ans \in CursorAnswers(gStores[gNode], a.start, a.end,
                                                          a.n, a.cont) : GAnswer(ans)
                             /\ UNCHANGED <<gOp, gRetry>>
                ELSE /\ gPc' = AfterFailure(gPc, "sync", o)
                     /\ gExc' = IF AfterFailure(gPc, "sync", o) = "raised" THEN o ELSE gExc
                     /\ gFailed' = IF gOp = "read_raw_history" THEN a ELSE gFailed
                     /\ gContFail' = (gContFail \/ (gOp = "read_raw_history" /\ a.cont # None))
                     /\ UNCHANGED <<gOp, gRetry, gDv, gCont, gPages>>
    /\ UNCHANGED <<sensParams, gNode, gConn, gCall, gAll, sensRest>>

\* the wrapper's obj.reconnect(), in the loop (ConnectionRefusedError is
\* logged and slept over) or in the else block
GReconnect ==
    /\ gPc \in {"reconn", "final_reconn"}
    /\ \E r \in ReconnectCall("sync", "handle", gConn) :
        /\ gConn' = r.transport
        /\ gPc' = AfterReconnect(gPc, r.exc, gRetry)
        /\ gExc' = IF AfterReconnect(gPc, r.exc, gRetry) = "raised" THEN r.exc ELSE gExc
    /\ gRetry' = IF gPc = "reconn" THEN gRetry + 1 ELSE gRetry
    /\ UNCHANGED <<sensParams, gNode, gOp, gCall, gCont, gDv, gAll, gSent, gFailed,
                   gPages, gContFail, sensRest>>

\* the top of download_endnode's loop: remaining, assert, numvalues, and the
\* call of client.read_raw_history(...)
GLoop ==
    /\ gPc = "loop"
    /\ gLimit - Len(gDv) >= 0
    /\ gCall' = [node |-> gNode, start |-> gStart, end |-> gEnd,
                 n |-> RequestSize(gLimit - Len(gDv), gCap), cont |-> gCont,
                 seq |-> Len(gPages[gNode])]
    /\ gOp' = "read_raw_history"
    /\ gPc' = "try"
    /\ gRetry' = 0
    /\ gFailed' = NoRequest
    /\ UNCHANGED <<sensParams, gNode, gConn, gCont, gDv, gAll, gSent, gPages,
                   gContFail, gExc, sensRest>>

\* get_endnode_data returns (values, dates), reversed if starttime is None;
\* get_sensor_data extends allValues / allDates and goes to the next end node,
\* starting with client.get_child(sensorNode, path)
GFinish ==
    /\ gPc = "finish"
    /\ LET got == [i \in 1..Len(gDv) |->
                    [node |-> gNode, id |-> gDv[i].id, date |-> Strftime(gDv[i].src)]]
       IN  gAll' = gAll \o (IF ShouldReverse(gStart) THEN Reverse(got) ELSE got)
    /\ IF gNode < Len(gStores)
       THEN /\ gNode' = gNode + 1
            /\ gOp' = "get_child"
            /\ gPc' = "try"
            /\ gRetry' = 0
       ELSE /\ gPc' = "done"
            /\ UNCHANGED <<gNode, gOp, gRetry>>
    /\ gFailed' = NoRequest
    /\ UNCHANGED <<sensParams, gConn, gCall, gCont, gDv, gSent, gPages, gContFail,
                   gExc, sensRest>>

InitSens ==
    /\ SessIdle /\ HistIdle /\ FiltIdle /\ FftIdle /\ RunIdle /\ ConcIdle
    /\ NestIdle /\ UrlIdle
    /\ SensInit

NextSens ==
    \/ GInvoke
    \/ GReconnect
    \/ GLoop
    \/ GFinish

SpecSens == InitSens /\ [][NextSens]_vars

----------------------------------------------------------------------------
(* Properties of the retry wrapper and of the scoped session *)

OpcKinds == {"sync", "asyncio"}

InFlight == pc \in {"try", "reconn", "sleep", "final_reconn", "final_invoke"}

WrapperStep == Invoke \/ Reconnect \/ Sleep \/ FinalReconnect \/ FinalInvoke

\* the longest trace one call can leave: per loop iteration an invocation, a
\* refused reconnect and a delay; then the else block
TraceMax == 9 * MAX_RETRIES + 7

\* C1: in the OPC UA wrappers a BadNoMatch raised by the wrapped operation is
\* the last thing the call does: it is what the call raises, and no reconnect,
\* delay or further invocation follows it.
C1_NotFoundPropagates ==
    kind \in OpcKinds =>
        \A i \in Positions(trace, "BadNoMatch") :
            /\ i = Len(trace)
            /\ pc \in {"raised", "idle"}
            /\ result = Raised("BadNoMatch", "invoke", nInvoke)

C1_Witness ==
    /\ kind = "asyncio"
    /\ pc = "raised"
    /\ result.exc = "BadNoMatch"
    /\ nInvoke = 2
    /\ nReconnect = 1

\* C2: when the first k < MAX_RETRIES attempts fail with a transient error, every
\* reconnect succeeds and attempt k+1 succeeds, the call returns the result of
\* invocation k+1 after exactly k+1 invocations and k completed reconnects.
C2_RecoversAfterK ==
    (kind # "asyncio" /\ pc = "returned" /\ nTransient < MAX_RETRIES /\ nRefused = 0) =>
        /\ nInvoke = nTransient + 1
        /\ nReconnect = nTransient
        /\ Cardinality(Positions(trace, "connected")) = nTransient
        /\ result = Value(nTransient + 1)

C2_Witness ==
    /\ kind = "sync"
    /\ pc = "returned"
    /\ nTransient = 2
    /\ nRefused = 0
    /\ nInvoke = 3

\* C3: one call invokes the wrapped operation at most MAX_RETRIES + 1 times, does a
\* bounded number of steps, is never stuck inside the wrapper, and has returned
\* or raised once the last invocation is made.
C3_BoundedAttempts ==
    /\ nInvoke <= MAX_RETRIES + 1
    /\ nReconnect <= MAX_RETRIES + 1
    /\ Len(trace) <= TraceMax
    /\ InFlight => ENABLED WrapperStep
    /\ nInvoke = MAX_RETRIES + 1 => pc \in {"returned", "raised", "idle"}

C3_Witness ==
    /\ kind = "graphql"
    /\ pc = "raised"
    /\ nInvoke = MAX_RETRIES + 1
    /\ nSleep = MAX_RETRIES

\* C4: when all guarded attempts failed and the final unguarded invocation fails
\* too, the call raises the exception of that final invocation; and a call that
\* returns returns the value its last invocation produced.
C4_FinalErrorSurfaces ==
    /\ (pc = "raised" /\ nInvoke = MAX_RETRIES + 1) =>
            /\ nTransient = MAX_RETRIES
            /\ result.type = "exc"
            /\ result.origin = "invoke"
            /\ result.at = MAX_RETRIES + 1
            /\ result.exc = Last(trace)
            /\ result.exc \in {"Transient", "BadNoMatch"}
    /\ pc = "returned" =>
            /\ nInvoke >= 1
            /\ result = Value(nInvoke)
            /\ Last(trace) = "ok"

C4_Witness ==
    /\ kind = "sync"
    /\ pc = "raised"
    /\ nInvoke = MAX_RETRIES + 1
    /\ result.exc = "Transient"

\* C5: in the synchronous OPC UA wrapper every transient failure of a guarded
\* attempt is followed by a warning and a call of reconnect, reconnect is
\* disconnect followed by connect, and there is a reconnect between any two
\* invocations of one call.
C5_ReconnectBetweenInvocations ==
    kind = "sync" =>
        /\ Between(trace, "invoke", "reconnect")
        /\ \A i \in Positions(trace, "Transient") :
                \/ i = Len(trace)
                \/ (i + 2 <= Len(trace) /\ trace[i + 1] = "warn" /\ trace[i + 2] = "reconnect")
        /\ \A i \in Positions(trace, "reconnect") :
                i + 2 <= Len(trace) /\ trace[i + 1] = "disconnect" /\ trace[i + 2] = "connect"

C5_Witness ==
    /\ kind = "sync"
    /\ pc = "returned"
    /\ nInvoke = 3
    /\ nRefused = 1

\* C6: in the asyncio wrapper the connection is torn down and re-created (a
\* disconnect and a completed connect) between any two invocations of one call.
C6_AsyncReconnectRuns ==
    kind = "asyncio" =>
        /\ Between(trace, "invoke", "disconnect")
        /\ Between(trace, "invoke", "connected")

\* C7: a ConnectionRefusedError of a guarded reconnect is not propagated; it is
\* followed by exactly one delay and then by the next attempt; a delay happens
\* only right after a refused reconnect, at most MAX_RETRIES times per call.
C7_BackoffOnlyAfterRefused ==
    /\ nSleep <= MAX_RETRIES
    /\ nSleep = (IF pc = "sleep" THEN nRefused - 1 ELSE nRefused)
    /\ \A i \in Positions(trace, "sleep") :
            /\ i >= 3
            /\ trace[i - 1] = "warn"
            /\ trace[i - 2] = "refused"
            /\ (i = Len(trace) \/ trace[i + 1] \in {"invoke", "reconnect"})
    /\ (pc = "raised" /\ result.exc = "ConnectionRefusedError") =>
            retry = MAX_RETRIES /\ result.origin = "reconnect"

C7_Witness ==
    /\ kind = "sync"
    /\ pc = "final_reconn"
    /\ nRefused = MAX_RETRIES
    /\ nSleep = MAX_RETRIES

\* C8: once control has left the with-block of an OPC UA session, on any path,
\* the underlying connection is closed.
C8_ScopeReleases ==
    (kind \in OpcKinds /\ scope \in {"left", "escaped"}) => transport = "closed"

\* C9: disconnect() never raises to its caller and leaves the session
\* disconnected, whatever the state of the connection and of the handle.
C9_DisconnectNeverRaises ==
    /\ discRaised = FALSE
    /\ last = "disconnect" => transport = "closed"

C9_Witness ==
    /\ scope = "left"
    /\ client = "None"
    /\ last = "disconnect"
    /\ discCalls = 2

----------------------------------------------------------------------------
(* Properties of the history reader *)

\* the stored samples inside the caller's range, oldest first
InRangeIds ==
    LET sel == SelectSeq(hServer, LAMBDA x : InBounds(x, hStartTime, hEndTime))
    IN  [i \in 1..Len(sel) |-> sel[i].id]

\* the samples a complete retrieval of at most hLimit samples returns: the
\* oldest ones of the range in forward mode, the newest ones in backward mode
ExpectedIds ==
    LET all == InRangeIds
        n == Min(hLimit, Len(all))
    IN  IF hStartTime = None THEN SubSeq(all, Len(all) - n + 1, Len(all))
        ELSE SubSeq(all, 1, n)

NonDecreasing(s) == \A i \in 1..(Len(s) - 1) : s[i] <= s[i + 1]

ClocksAgree == \A i \in 1..Len(hServer) : hServer[i].src = hServer[i].srv

\* C10: a finished retrieval returns every in-range sample up to the limit
\* exactly once, in order, and its timestamps are non-decreasing. Stated here
\* for the servers most favourable to the claim, those whose source and server
\* timestamps agree, so that the order of the returned dates is the order of
\* pagination.
C10_CompleteAndOrdered ==
    (reader = "timestamp" /\ hpc = "done" /\ ClocksAgree)
        => (values = ExpectedIds /\ NonDecreasing(dates))

\* C11: a history read whose start and end are both present with start > end
\* returns the empty pair and has invoked no operation of the remote
\* collaborator: no namespace lookup, no browse, no history page request.
C11_EmptyRangeNoRemoteCall ==
    (Truthy(hStartTime) /\ Truthy(hEndTime) /\ hStartTime > hEndTime /\ hpc = "done")
        => (values = <<>> /\ dates = <<>> /\ requests = <<>>)

HistoryRequests == SelectSeq(requests, LAMBDA r : r.op = "history_read")

RECURSIVE Concat(_)
Concat(ps) == IF ps = <<>> THEN <<>> ELSE ps[1].ids \o Concat(Tail(ps))

Received == Concat(pages)

\* the timestamp the reader hands out for a stored sample
DateOf(id) ==
    IF reader = "cursor" THEN Strftime(hServer[id].src) ELSE hServer[id].src

\* C12: the returned pair is the received samples reversed exactly when the
\* caller omitted start and in received order when start was given, however
\* many pages were fetched and however the loop moved its own bounds; and
\* values[i] and dates[i] belong to the same sample.
C12_ReversedIffBackward ==
    hpc = "done" =>
        /\ values = (IF hStartTime = None THEN Reverse(Received) ELSE Received)
        /\ Len(dates) = Len(values)
        /\ \A i \in 1..Len(values) : dates[i] = DateOf(values[i])

C12_Witness ==
    /\ hpc = "done"
    /\ hStartTime = None
    /\ Len(pages) >= 2
    /\ Len(values) >= 2
    /\ values # Received

\* download_endnode's three stop conditions after the last answer
StopCondition ==
    \/ Len(Last(pages).ids) = 0
    \/ Last(pages).cont = None
    \/ Len(Received) >= hLimit

\* C13: once the last page was empty, or came without a continuation point, or
\* the samples so far have reached the total limit, the pagination loop issues
\* no further page request; and when none of these holds it issues another.
C13_StopsExactlyWhen ==
    (reader = "cursor" /\ Len(pages) >= 1) =>
        /\ StopCondition => (hpc \in {"finish", "done"} /\ ~ENABLED CPage)
        /\ ~StopCondition => (hpc = "loop" /\ ENABLED CPage)

C13_Witness ==
    /\ reader = "cursor"
    /\ hpc = "done"
    /\ Len(pages) >= 2
    /\ Last(pages).cont = None
    /\ Len(Last(pages).ids) > 0
    /\ Len(Received) < hLimit

\* the samples accumulated before the k-th history read was issued
CountBefore(k) == Len(Concat(SubSeq(pages, 1, k - 1)))

\* C15: every history page request asks for min(perRequestCap, totalLimit -
\* countSoFar) samples, and that is at least 1.
C15_RequestSizeClamped ==
    \A k \in 1..Len(HistoryRequests) :
        /\ HistoryRequests[k].n = Min(hCap, hLimit - CountBefore(k))
        /\ HistoryRequests[k].n >= 1

C15_Witness ==
    /\ Len(HistoryRequests) >= 2
    /\ HistoryRequests[1].n = hCap
    /\ HistoryRequests[2].n < hCap
    /\ hpc = "done"

\* C16: with a server that returns at most the requested number of samples per
\* page, the number of samples one retrieval accumulates and returns never
\* exceeds the total limit.
C16_AtMostLimit ==
    /\ Len(values) <= hLimit
    /\ Len(dates) <= hLimit
    /\ Len(dvList) <= hLimit
    /\ Len(Received) <= hLimit

C16_Witness ==
    /\ hpc = "done"
    /\ hLimit >= 1
    /\ Len(values) = hLimit
    /\ Len(InRangeIds) > hLimit
    /\ Len(pages) >= 2

DataPages == SelectSeq(pages, LAMBDA a : Len(a.ids) > 0)

EmptyPages == SelectSeq(pages, LAMBDA a : Len(a.ids) = 0)

\* C17: whatever the server answers, a retrieval makes at most totalLimit page
\* requests that return data and at most one that returns none, can always
\* take its next step until it has returned, and does return.
C17_Terminates ==
    /\ [](/\ Len(DataPages) <= hLimit
          /\ Len(EmptyPages) <= 1
          /\ Len(HistoryRequests) = Len(pages)
          /\ (hpc # "done" => ENABLED NextAdv))
    /\ <>(hpc = "done")

C17_Witness ==
    /\ hpc = "done"
    /\ hLimit >= 2
    /\ Len(DataPages) = hLimit
    /\ Len(Received) > hLimit
    /\ \E k \in 2..Len(pages) : pages[k].ids = pages[1].ids

\* the page requests a timestamp reader makes, computed from the server
\* timestamps of the stored samples alone
ServerTimes == [i \in 1..Len(hServer) |-> hServer[i].srv]

RECURSIVE Predicted(_, _, _)
Predicted(st, en, num) ==
    IF num <= 0 \/ (st # None /\ en # None /\ st > en)
    THEN <<>>
    ELSE LET n == Min(num, hCap)
             inr == SelectSeq(ServerTimes,
                        LAMBDA t : (st = None \/ t >= st) /\ (en = None \/ t <= en))
             ord == IF st = None THEN Reverse(inr) ELSE inr
             got == Take(ord, n)
             req == [op |-> "history_read", start |-> st, end |-> en, n |-> n,
                     cont |-> None]
         IN  IF got = <<>> THEN <<req>>
             ELSE IF st = None
                  THEN <<req>> \o Predicted(st, Last(got) - 1, num - Len(got))
                  ELSE <<req>> \o Predicted(Last(got) + 1, en, num - Len(got))

\* C18: the sequence of page requests (start, end and count of each) is
\* determined by the stored samples' server timestamps alone; the source
\* timestamps, whatever they are, do not enter it. Hence two servers with the
\* same server timestamps and different source timestamps get the same
\* requests.
C18_RequestsFromServerTimes ==
    (reader = "timestamp" /\ hpc = "done")
        => HistoryRequests = Predicted(hStartTime, hEndTime, hLimit)

C18_Witness ==
    /\ reader = "timestamp"
    /\ hpc = "done"
    /\ Len(HistoryRequests) >= 2
    /\ \E i \in 1..Len(hServer) : hServer[i].src # hServer[i].srv
    /\ hServer[Last(pages[1].ids)].src # hServer[Last(pages[1].ids)].srv

\* the bounds that follow the k-th answer: those of request k + 1 when it was
\* issued, else the loop's current ones
BoundsAfter(k) ==
    IF k < Len(HistoryRequests)
    THEN [start |-> HistoryRequests[k + 1].start, end |-> HistoryRequests[k + 1].end]
    ELSE [start |-> starttime, end |-> endtime]

\* C19: after each non-empty page, in forward mode the next request's start is
\* the server timestamp of the page's last sample plus one time unit and end is
\* unchanged; in backward mode the next request's end is that server timestamp
\* minus one time unit and start stays absent.
C19_BoundaryAdvance ==
    reader = "timestamp" =>
        \A k \in 1..Len(pages) :
            Len(pages[k].ids) > 0 =>
                LET t == hServer[Last(pages[k].ids)].srv
                IN  IF hStartTime # None
                    THEN /\ BoundsAfter(k).start = t + 1
                         /\ BoundsAfter(k).end = HistoryRequests[k].end
                    ELSE /\ BoundsAfter(k).end = t - 1
                         /\ BoundsAfter(k).start = None

C19_Witness ==
    /\ reader = "timestamp"
    /\ hpc = "done"
    /\ hStartTime # None
    /\ Len(pages) >= 3
    /\ Len(pages[2].ids) > 0

\* C20: when the first page of a retrieval is empty, the retrieval issues no
\* second page request, does not raise, and returns empty value and timestamp
\* sequences.
C20_EmptyFirstPage ==
    (Len(pages) >= 1 /\ Len(pages[1].ids) = 0) =>
        /\ Len(pages) = 1
        /\ hpc \in {"finish", "done"}
        /\ values = <<>>
        /\ dates = <<>>

C20_Witness ==
    /\ hpc = "done"
    /\ Len(hServer) > 0
    /\ Len(pages) = 1
    /\ Len(pages[1].ids) = 0
    /\ values = <<>>

----------------------------------------------------------------------------
(* Properties of a run over sibling variables and of concurrent retrievals *)

\* C21: a fatal failure in the retrieval of one variable does not abort the
\* retrievals of its siblings: when the run is over, whether it returned or
\* raised, every end node or device of the run has been read.
C21_SiblingsStillRead ==
    rpc \in {"returned", "raised"} => rRead = [i \in 1..Len(rOutcomes) |-> i]

\* C22: two concurrent retrievals each use a connection handle of their own,
\* no step of one closes or replaces the connection of the other, and each
\* gets the pages of its own node whatever the interleaving.
C22_Isolated ==
    cPc # <<"idle", "idle">> =>
        /\ cHandle[1] # cHandle[2]
        /\ ~cTouched
        /\ \A r \in Retrievals :
                cPc[r] = "done" => cGot[r] = [i \in 1..cPages[r] |-> <<r, i>>]

----------------------------------------------------------------------------
(* Properties of the signal conditioning *)

\* C23: a non-bypassed call of perform_hpf_filtering returns as many samples
\* as it was given, for every input sequence, also one shorter than 14
\* samples; the settling replacement never changes the length.
C23_LengthPreserved ==
    /\ (fpc = "done" /\ ~Bypassed(fHpf)) => Len(fData.v) = Len(fInput.v)
    /\ fSettled # NotYet => Len(fSettled) = Len(fInput.v)

\* C24: with cutoff 0 the call returns the input sequence itself, element for
\* element, for any input and sample rate; no settling correction and no
\* filter stage is applied.
C24_BypassLaw ==
    (fpc # "idle" /\ fHpf = 0) =>
        /\ fpc \in {"start", "done"}
        /\ fData = fInput
        /\ fData.filt = <<>>
        /\ fSettled = NotYet
        /\ fStages = <<>>
        /\ fExc = "none"

C24_Witness ==
    /\ fpc = "done"
    /\ fHpf = 0
    /\ Len(fInput.v) >= 14
    /\ fRate <= 6
    /\ fData.v[1] = 0

\* C25: a filter stage whose cutoff is at or above sampleRate/2 returns an
\* all-zero sequence of its input's length and raises nothing, in both stages
\* and for the sequence types the callers pass.
C25_ZeroAboveNyquist ==
    \A k \in 1..Len(fStages) :
        fStages[k].nyquist =>
            /\ fStages[k].exc = "none"
            /\ Len(fStages[k].out.v) = fStages[k].len
            /\ \A i \in 1..Len(fStages[k].out.v) : fStages[k].out.v[i] = 0
            /\ fStages[k].out.filt = <<>>

\* C26: whenever filtering is not bypassed, before any stage runs, the first 6
\* samples are input[13], input[12], ..., input[8] and the samples from index 6
\* on are the input's.
C26_SettlingReplacement ==
    (~Bypassed(fHpf) /\ fpc # "start") =>
        /\ fSettled # NotYet
        /\ Len(fInput.v) >= 14
        /\ Len(fSettled) = Len(fInput.v)
        /\ \A i \in 0..5 : fSettled[i + 1] = fInput.v[(13 - i) + 1]
        /\ \A i \in 6..(Len(fInput.v) - 1) : fSettled[i + 1] = fInput.v[i + 1]

\* C27: when not bypassed the stages run in the order: order 1 at 3 Hz, then
\* order 2 at exactly the caller's cutoff, also a non-integer one.
C27_StageOrderAndCutoff ==
    /\ Len(fStages) >= 1 => (fStages[1].order = 1 /\ fStages[1].lowcut = 6)
    /\ Len(fStages) >= 2 => (fStages[2].order = 2 /\ fStages[2].lowcut = fHpf)
    /\ (fpc = "done" /\ ~Bypassed(fHpf)) => Len(fStages) = 2

\* C28: perform_fft_windowed fails with an AssertionError, before anything is
\* computed, whenever overlap >= windowSize or the mode is not one of the four
\* allowed ones; for all other arguments the check passes.
C28_PreconditionCheck ==
    wpc \notin {"idle", "start"} =>
        IF wOverlap >= wWin \/ wMode \notin {"magnitudeRMS", "magnitudePeak", "lin", "log"}
        THEN /\ wpc = "raised"
             /\ wExc = "AssertionError"
             /\ wPadded = 0 /\ wK = 0 /\ wSegs = <<>> /\ wOut = <<>>
        ELSE wpc # "raised" /\ wExc = "none"

C28_Witness ==
    /\ wpc = "raised"
    /\ wOverlap = wWin
    /\ wMode = "lin"

RECURSIVE SumSeq(_)
SumSeq(q) == IF q = <<>> THEN 0 ELSE q[1] + SumSeq(Tail(q))

Max(a, b) == IF a >= b THEN a ELSE b

\* C29: with L the signal length after zero-padding to at least W and O < W,
\* the number of processed segments is k = floor((L - O) / (W - O)) >= 1,
\* segment i starts at i * (W - O), and every segment lies inside the signal.
C29_Segments ==
    wpc \in {"loop", "done"} =>
        LET L == Max(wLen, wWin)
        IN  /\ wPadded = L
            /\ wK = (L - wOverlap) \div (wWin - wOverlap)
            /\ wK >= 1
            /\ Len(wSegs) <= wK
            /\ wpc = "done" => Len(wSegs) = wK
            /\ \A i \in 1..Len(wSegs) :
                    /\ wSegs[i].start = (i - 1) * (wWin - wOverlap)
                    /\ wSegs[i].len = wWin
                    /\ wSegs[i].start + wWin <= L

C29_Witness ==
    /\ wpc = "done"
    /\ wLen < wWin
    /\ wOverlap > 0
    /\ wK = 1

\* C30: for a real signal the returned spectrum is the first ceil(W/2) bins of
\* the two-sided one, every retained bin doubled except DC and the last
\* retained one, and its total power is that of the two-sided spectrum, for
\* even and odd W; for a complex signal it is all W bins, undoubled.
C30_OneSidedSpectrum ==
    wpc = "done" =>
        IF wComplex
        THEN wOut = wTwoSided
        ELSE /\ Len(wOut) = (wWin + 1) \div 2
             /\ \A i \in 1..Len(wOut) :
                    wOut[i] = IF i = 1 \/ i = Len(wOut) THEN wTwoSided[i] ELSE 2 * wTwoSided[i]
             /\ SumSeq(wOut) = SumSeq(wTwoSided)

----------------------------------------------------------------------------
(* Further properties of the retry wrapper *)

\* C33: the wrapped operation is invoked only while the connection is
\* established: after a refused reconnect (torn down, not re-created) no
\* invocation follows until a later reconnect has connected.
C33_InvokedOnlyWhileConnected ==
    kind = "sync" =>
        \A i \in Positions(trace, "refused") :
            \A j \in Positions(trace, "invoke") :
                i < j => \E k \in Positions(trace, "connected") : i < k /\ k < j

\* C34: a reconnect failure other than ConnectionRefusedError in a guarded
\* attempt, and any reconnect failure in the else block, is what the call
\* raises, at once: nothing follows it in the call, whatever budget remains,
\* and the last invocation is made only after the else block's reconnect
\* has connected.
C34_ReconnectErrorPropagates ==
    kind = "sync" =>
        /\ \A i \in Positions(trace, "failed") :
                /\ i = Len(trace)
                /\ pc \in {"raised", "idle"}
                /\ result.type = "exc"
                /\ result.origin = "reconnect"
                /\ result.exc \in {"ConnectError", "LoadError"}
        /\ (nReconnect = MAX_RETRIES + 1 /\ trace # <<>> /\ Last(trace) = "refused") =>
                /\ pc \in {"raised", "idle"}
                /\ result = Raised("ConnectionRefusedError", "reconnect", 0)
        /\ nInvoke = MAX_RETRIES + 1 =>
                \E j \in Positions(trace, "invoke") :
                    /\ \A i \in Positions(trace, "invoke") : i <= j
                    /\ trace[j - 1] = "connected"

C34_Witness ==
    /\ kind = "sync"
    /\ pc = "raised"
    /\ result = Raised("ConnectError", "reconnect", 0)
    /\ retry = 0
    /\ nInvoke = 1
    /\ Last(trace) = "failed"

\* C35: in the GraphQL client a not-found error raised by execute_query is the
\* last thing the call does: it is what the call raises, and no reconnect and
\* no further invocation follows it.
C35_GraphqlNotFoundPropagates ==
    kind = "graphql" =>
        \A i \in Positions(trace, "BadNoMatch") :
            /\ i = Len(trace)
            /\ pc \in {"raised", "idle"}
            /\ result = Raised("BadNoMatch", "invoke", nInvoke)

------------------------------------------------------------\* C36: one call of a retry-wrapped method invokes each underlying remote
\* operation at most MAX_RETRIES + 1 times, also when the wrapped method calls
\* another retry-wrapped method.
C36_NestedInvocationsBounded ==
    /\ nGetChild <= MAX_RETRIES + 1
    /\ nGetChildren <= MAX_RETRIES + 1


\* C37: a session is only ever connected to the endpoint it was constructed
\* with: entering the scope and reconnecting connect to that URL again, and
\* neither depends on a module-level name.
C37_SameEndpoint ==
    /\ uOpen => uTarget = uCtor
    /\ uExc # "NameError"

----------------------------------------------------------------------------
(* Properties of the retried retrieval *)

\* what a retrieval of end node v returns when no attempt fails: the first
\* gLimit samples of the range in the server's order, put oldest first
FailureFree(v) ==
    LET ord == Ordered(gStores[v], gStart, gEnd)
        got == Take(ord, gLimit)
        recs == [i \in 1..Len(got) |->
                    [node |-> v, id |-> got[i].id, date |-> Strftime(got[i].src)]]
    IN  IF gStart = None THEN Reverse(recs) ELSE recs

RECURSIVE FailureFreeUpTo(_)
FailureFreeUpTo(v) == IF v = 0 THEN <<>> ELSE FailureFreeUpTo(v - 1) \o FailureFree(v)

\* an attempt of the wrapper that raised
FailedAttempt == gPc \in {"try", "final_invoke"} /\ gPc' \in {"reconn", "raised"}

\* an attempt of read_raw_history that follows a failed one of the same call
RetriedAttempt ==
    /\ gPc \in {"try", "final_invoke"}
    /\ gPc' # gPc
    /\ gOp = "read_raw_history"
    /\ gFailed # NoRequest

\* C31: a retrieval in which attempts of page requests failed and were retried
\* returns what the failure-free retrieval of the same data returns; a failed
\* attempt appends no samples; a retried request carries the start, end,
\* maxCount and cursor of the failed one.
C31_RetryTransparent ==
    /\ [](gPc = "done" => gAll = FailureFreeUpTo(Len(gStores)))
    /\ [][FailedAttempt => (gDv' = gDv /\ gAll' = gAll /\ gCont' = gCont)]_vars
    /\ [][RetriedAttempt => gSent' = gFailed]_vars

C31_Witness ==
    /\ gPc = "done"
    /\ gContFail
    /\ Len(gAll) >= 3

\* C32: in download_endnode the first page request for a variable carries no
\* cursor, every later one carries the cursor returned with the page before
\* it, start and end are the caller's in every request, and no request for a
\* variable carries a cursor obtained for another one.
C32_CursorThreading ==
    gSent # NoRequest =>
        /\ gSent.start = gStart
        /\ gSent.end = gEnd
        /\ gSent.node \in 1..gNode
        /\ gSent.seq <= Len(gPages[gSent.node])
        /\ gSent.cont = IF gSent.seq = 0 THEN None ELSE gPages[gSent.node][gSent.seq]

C32_Witness ==
    /\ gPc = "done"
    /\ gNode = 2
    /\ Last(gPages[1]) # None
    /\ gSent.node = 2
    /\ gSent.seq >= 1
    /\ gSent.cont # None

----------------
(* Further properties of the history readers *)

\* C38: with a total limit of 0 a retrieval issues no history page request and
\* returns the empty pair; and no history page request ever asks for 0 samples.
C38_ZeroLimitNoRequest ==
    /\ hLimit = 0 =>
            /\ HistoryRequests = <<>>
            /\ pages = <<>>
            /\ values = <<>>
            /\ dates = <<>>
    /\ \A k \in 1..Len(HistoryRequests) : HistoryRequests[k].n # 0

C38_Witness ==
    /\ reader = "timestamp"
    /\ hLimit = 0
    /\ hpc = "done"
    /\ Len(InRangeIds) > 0
    /\ Len(requests) > 0

\* C39: in download_endnode `remaining = MAX_VALUES_PER_ENDNODE - len(dvList)`
\* is at least 0 at the top of every loop iteration and in every request that
\* was issued, whatever the server answers, a page longer than requested
\* included.
C39_RemainingNonNegative ==
    reader = "cursor" =>
        /\ hpc = "loop" => hLimit - Len(dvList) >= 0
        /\ \A k \in 1..Len(HistoryRequests) : hLimit - CountBefore(k) >= 0

C39_Witness ==
    /\ reader = "cursor"
    /\ hpc = "done"
    /\ Len(HistoryRequests) >= 2
    /\ Len(Last(pages).ids) > Last(HistoryRequests).n
    /\ Len(dvList) > hLimit

----------------------------------------------------------------------------
(* Further properties of the signal transforms *)

\* the elements of the sequence object the caller passed in, as the caller
\* sees them: data[0:6] = ... writes into that object, the later
\* `data = run_highpass_filter(...)` only rebinds the local name
CallerData == IF fSettled = NotYet THEN fInput.v ELSE fSettled

\* C40: after a non-bypassed call of perform_hpf_filtering has returned, the
\* caller's input sequence holds the same elements as before the call.
C40_InputUntouched ==
    (fpc = "done" /\ ~Bypassed(fHpf)) => CallerData = fInput.v

====
